---- MODULE Spec2Model ----
(***************************************************************************)
(* Model of the hybrid retrieval core of the order-processing MVP:         *)
(* src/src/rag/manager.py, class RAGManager (singleton construction,       *)
(* load_ndjson, index_folder, get_vector_store, query).                    *)
(*                                                                         *)
(* Python values are tagged records ([t |-> "str", s |-> chars], ...).     *)
(* Strings are sequences of one-character strings, so that the regular     *)
(* expressions, upper()/lower() and ', '.join of the source are computed   *)
(* character by character.  The fixed literals of the f-strings that       *)
(* build a document text ("Tags: ", "\n", ...) are single elements.        *)
(***************************************************************************)
EXTENDS Integers, Sequences, FiniteSets, TLC

VARIABLES
    cls_instance,   \* RAGManager._instance: 0 (None) or the heap address of the instance
    heap,           \* the RAGManager objects allocated so far, by address 1..Len(heap)
    disk,           \* per persist directory: exists, files (os.listdir non-empty), docs
    lastIndexed,    \* history: all_documents of the last index_folder that found documents
    buildFailed,    \* history: some index_folder call failed in the backend
    ret             \* the last call: operation, arguments, observations and result

vars == <<cls_instance, heap, disk, lastIndexed, buildFailed, ret>>

-----------------------------------------------------------------------------
(* Bounds of the model *)

MaxK == 3           \* query is called with k in 0..MaxK
MaxInstances == 2   \* RAGManager objects the heap can hold

-----------------------------------------------------------------------------
(* Python values *)

PyNone == [t |-> "none"]
PyStr(s) == [t |-> "str", s |-> s]
PyInt(n) == [t |-> "int", n |-> n]
PyBool(b) == [t |-> "bool", b |-> b]
PyList(items) == [t |-> "list", items |-> items]
PyDict(items) == [t |-> "dict", items |-> items]

\* bool(v) of Python
Truthy(v) ==
    CASE v.t = "none" -> FALSE
      [] v.t = "str"  -> v.s # <<>>
      [] v.t = "int"  -> v.n # 0
      [] v.t = "bool" -> v.b
      [] v.t = "list" -> v.items # <<>>
      [] v.t = "dict" -> DOMAIN v.items # {}
      [] OTHER -> TRUE

\* d.get(key, default) of a dict
DictGet(d, key, default) ==
    IF key \in DOMAIN d.items THEN d.items[key] ELSE default

LowerSeq == <<"a","b","c","d","e","f","g","h","i","j","k","l","m",
              "n","o","p","q","r","s","t","u","v","w","x","y","z">>
UpperSeq == <<"A","B","C","D","E","F","G","H","I","J","K","L","M",
              "N","O","P","Q","R","S","T","U","V","W","X","Y","Z">>
DigitSeq == <<"0","1","2","3","4","5","6","7","8","9">>

Lowers == {LowerSeq[i] : i \in 1..26}
Uppers == {UpperSeq[i] : i \in 1..26}
Digits == {DigitSeq[i] : i \in 1..10}

\* the class \w of the regular expressions
WordChars == Lowers \cup Uppers \cup Digits \cup {"_"}
\* the class [\w\.-]
EmailChars == WordChars \cup {".", "-"}

UpperCh(c) == IF c \in Lowers THEN UpperSeq[CHOOSE i \in 1..26 : LowerSeq[i] = c] ELSE c
LowerCh(c) == IF c \in Uppers THEN LowerSeq[CHOOSE i \in 1..26 : UpperSeq[i] = c] ELSE c

\* str.upper() and str.lower()
Upper(s) == [i \in 1..Len(s) |-> UpperCh(s[i])]
Lower(s) == [i \in 1..Len(s) |-> LowerCh(s[i])]

RECURSIVE IntChars(_)
\* str(n) of an integer
IntChars(n) ==
    IF n < 0 THEN <<"-">> \o IntChars(0 - n)
    ELSE IF n < 10 THEN <<DigitSeq[n + 1]>>
    ELSE IntChars(n \div 10) \o <<DigitSeq[(n % 10) + 1]>>

\* the text an f-string puts for {v}
Fmt(v) ==
    CASE v.t = "str"  -> v.s
      [] v.t = "none" -> <<"N","o","n","e">>
      [] v.t = "int"  -> IntChars(v.n)
      [] v.t = "bool" -> IF v.b THEN <<"T","r","u","e">> ELSE <<"F","a","l","s","e">>
      [] v.t = "dict" /\ DOMAIN v.items = {} -> <<"{","}">>
      [] v.t = "list" /\ v.items = <<>> -> <<"[","]">>
      [] OTHER -> <<"<repr>">>

RECURSIVE Join(_, _)
\* sep.join(items) for a sequence of character sequences
Join(sep, items) ==
    IF items = <<>> THEN <<>>
    ELSE IF Len(items) = 1 THEN items[1]
    ELSE items[1] \o sep \o Join(sep, Tail(items))

-----------------------------------------------------------------------------
(* Regular expressions of query *)

\* re.compile(r'ORD-\d{4}', re.IGNORECASE) matches at position i of t
IdMatchAt(t, i) ==
    /\ i + 7 <= Len(t)
    /\ UpperCh(t[i]) = "O"
    /\ UpperCh(t[i + 1]) = "R"
    /\ UpperCh(t[i + 2]) = "D"
    /\ t[i + 3] = "-"
    /\ \A j \in 4..7 : t[i + j] \in Digits

\* id_pattern.search(text): the leftmost match, as a Python value (None: no match)
IdSearch(t) ==
    IF \E i \in 1..Len(t) : IdMatchAt(t, i)
    THEN LET i == CHOOSE a \in 1..Len(t) :
                      IdMatchAt(t, a) /\ \A b \in 1..(a - 1) : ~IdMatchAt(t, b)
         IN  PyStr(SubSeq(t, i, i + 7))
    ELSE PyNone

\* the end of the maximal run of characters of class cs that starts at i (i-1 if none)
RECURSIVE RunEnd(_, _, _)
RunEnd(t, i, cs) ==
    IF i <= Len(t) /\ t[i] \in cs THEN RunEnd(t, i + 1, cs) ELSE i - 1

\* r'[\w\.-]+@[\w\.-]+\.\w+' matched at position i of t: the end of the match, 0 if none.
\* The first group is greedy and must stop at an '@'; the second is greedy, so the
\* '\.' is the last dot of the run after '@' that has a character before it in the
\* run and a \w after it; the final \w+ is greedy.
EmailMatchEnd(t, i) ==
    LET a == RunEnd(t, i, EmailChars) + 1      \* position of the '@'
        e == RunEnd(t, a + 1, EmailChars)      \* end of the run after the '@'
        dots == {d \in (a + 2)..(e - 1) : t[d] = "." /\ t[d + 1] \in WordChars}
    IN  IF a > i /\ a <= Len(t) /\ t[a] = "@" /\ dots # {}
        THEN LET d == CHOOSE x \in dots : \A y \in dots : y <= x
             IN  RunEnd(t, d + 1, WordChars)
        ELSE 0

\* email_pattern.search(text): the leftmost match, as a Python value (None: no match)
EmailSearch(t) ==
    IF \E i \in 1..Len(t) : EmailMatchEnd(t, i) > 0
    THEN LET i == CHOOSE a \in 1..Len(t) :
                      EmailMatchEnd(t, a) > 0 /\ \A b \in 1..(a - 1) : EmailMatchEnd(t, b) = 0
         IN  PyStr(SubSeq(t, i, EmailMatchEnd(t, i)))
    ELSE PyNone

-----------------------------------------------------------------------------
(* load_ndjson: one Document per parseable line *)

EmptyDict == PyDict(<<>>)
NA == PyStr(<<"N", "/", "A">>)

\* A line of a file is blank, not JSON, or JSON with the parsed value.
BlankLine == [kind |-> "blank"]
InvalidLine == [kind |-> "invalid"]
JsonLine(v) == [kind |-> "json", value |-> v]

\* the statements of the inner try block raise for this line (lines 59-100)
LineRaises(line) ==
    \/ line.kind = "invalid"                                 \* json.loads
    \/ /\ line.kind = "json"
       /\ \/ line.value.t # "dict"                           \* data.get
          \/ /\ line.value.t = "dict"
             /\ \/ DictGet(line.value, "shipping", EmptyDict).t # "dict"      \* shipping.get
                \/ LET tags == DictGet(line.value, "tags", PyList(<<>>))
                   IN  /\ tags.t = "list"                    \* ', '.join(tags)
                       /\ \E i \in 1..Len(tags.items) : tags.items[i].t # "str"

\* TagsLine with ', '.join applied to a string as well, joining its characters
TagsLineJoinsString(tags) ==
    IF tags.t = "str"
    THEN <<"Tags: ">> \o Join(<<",", " ">>, [i \in 1..Len(tags.s) |-> <<tags.s[i]>>]) \o <<"\n">>
    ELSE IF tags.t = "list"
         THEN <<"Tags: ">>
              \o Join(<<",", " ">>, [i \in 1..Len(tags.items) |-> tags.items[i].s])
              \o <<"\n">>
         ELSE <<>>

\* the Tags line of the text (lines 78-82)
TagsLine(tags) ==
    IF tags.t = "str" THEN <<"Tags: ">> \o tags.s \o <<"\n">>
    ELSE IF tags.t = "list"
         THEN <<"Tags: ">>
              \o Join(<<",", " ">>, [i \in 1..Len(tags.items) |-> tags.items[i].s])
              \o <<"\n">>
         ELSE <<>>

\* ShippingLine with shipping.get(key) given no default
ShippingLineNoDefault(data) ==
    LET shipping == DictGet(data, "shipping", EmptyDict)
    IN  <<"Shipping: ">> \o Fmt(DictGet(shipping, "city", PyNone)) \o <<",", " ">>
        \o Fmt(DictGet(shipping, "country_code", PyNone)) \o <<"\n">>

\* the Shipping line of the text (lines 75-76)
ShippingLine(data) ==
    LET shipping == DictGet(data, "shipping", EmptyDict)
    IN  <<"Shipping: ">> \o Fmt(DictGet(shipping, "city", NA)) \o <<",", " ">>
        \o Fmt(DictGet(shipping, "country_code", NA)) \o <<"\n">>

\* the Coupon and Is Gift lines of the text (lines 84-88)
OptionalLines(data) ==
    (IF Truthy(DictGet(data, "coupon_code", PyNone))
     THEN <<"Coupon: ">> \o Fmt(DictGet(data, "coupon_code", PyNone)) \o <<"\n">>
     ELSE <<>>)
    \o
    (IF Truthy(DictGet(data, "is_gift", PyNone))
     THEN <<"Is Gift: ">> \o Fmt(DictGet(data, "is_gift", PyNone)) \o <<"\n">>
     ELSE <<>>)

\* text_content of one record (lines 61-88)
TextContent(data) ==
    LET order_id == DictGet(data, "order_id", NA)
        customer == DictGet(data, "customer_email", NA)
    IN  <<"ORDER_SEARCH_ID: ">> \o Fmt(order_id) \o <<"\n">>
        \o <<"CUSTOMER_SEARCH_EMAIL: ">> \o Fmt(customer) \o <<"\n">>
        \o <<"Order Details:\n">>
        \o <<"Order ID: ">> \o Fmt(order_id) \o <<"\n">>
        \o <<"Customer: ">> \o Fmt(customer) \o <<"\n">>
        \o <<"Status: ">> \o Fmt(DictGet(data, "status", NA)) \o <<"\n">>
        \o <<"Quantity: ">> \o Fmt(DictGet(data, "quantity", PyInt(0)))
        \o <<",", " ", "Unit Price: ">> \o Fmt(DictGet(data, "unit_price", PyInt(0))) \o <<"\n">>
        \o ShippingLine(data)
        \o TagsLine(DictGet(data, "tags", PyList(<<>>)))
        \o OptionalLines(data)

\* the Document built for one record (lines 91-99)
BuildDocument(data, file_path) ==
    [page_content |-> TextContent(data),
     metadata |-> PyDict([order_id |-> DictGet(data, "order_id", NA),
                          customer_email |-> DictGet(data, "customer_email", NA),
                          source |-> PyStr(<<file_path>>),
                          type |-> PyStr(<<"order">>)])]

RECURSIVE LoadLinesStopsAtFirstError(_, _)
\* LoadLines with the try around the whole loop: the first line that raises ends it
LoadLinesStopsAtFirstError(lines, file_path) ==
    IF lines = <<>> THEN <<>>
    ELSE IF Head(lines).kind = "blank"
         THEN LoadLinesStopsAtFirstError(Tail(lines), file_path)
    ELSE IF LineRaises(Head(lines)) THEN <<>>
    ELSE <<BuildDocument(Head(lines).value, file_path)>>
         \o LoadLinesStopsAtFirstError(Tail(lines), file_path)

RECURSIVE LoadLines(_, _)
\* the loop over the lines of an opened file (lines 55-102)
LoadLines(lines, file_path) ==
    IF lines = <<>> THEN <<>>
    ELSE (IF Head(lines).kind = "blank" \/ LineRaises(Head(lines))
          THEN <<>>
          ELSE <<BuildDocument(Head(lines).value, file_path)>>)
         \o LoadLines(Tail(lines), file_path)

\* load_ndjson(file_path) on a file [exists, readable, lines]
load_ndjson(file_path, file) ==
    IF ~file.exists THEN <<>>
    ELSE IF ~file.readable THEN <<>>
    ELSE LoadLines(file.lines, file_path)

-----------------------------------------------------------------------------
(* The environment: strings, records and input folders of the runs checked *)

sORD0003 == <<"O","R","D","-","0","0","0","3">>
sOrd0003 == <<"o","r","d","-","0","0","0","3">>
sORD0033 == <<"O","R","D","-","0","0","3","3">>
sORD0001 == <<"O","R","D","-","0","0","0","1">>
sMailA == <<"a","@","x",".","c","o","m">>
sMailAUp == <<"A","@","X",".","c","o","m">>
sMailB == <<"b","@","y",".","o","r","g">>
sMailZ == <<"z","@","q",".","i","o">>

Order(id, mail) == PyDict([order_id |-> PyStr(id), customer_email |-> PyStr(mail)])

\* data/raw: three orders, one of them with a lower-case ID, two sharing an email
\* up to letter case; a text file that the walk must ignore
FileRawOrders ==
    [name |-> <<"orders", ".ndjson">>, path |-> "data/raw/orders.ndjson",
     file |-> [exists |-> TRUE, readable |-> TRUE,
               lines |-> <<JsonLine(Order(sORD0003, sMailA)),
                           JsonLine(Order(sORD0033, sMailAUp)),
                           BlankLine,
                           JsonLine(Order(sOrd0003, sMailB))>>]]
FileRawNotes ==
    [name |-> <<"notes", ".txt">>, path |-> "data/raw/notes.txt",
     file |-> [exists |-> TRUE, readable |-> TRUE,
               lines |-> <<JsonLine(Order(sORD0001, sMailZ))>>]]

\* data/new: two files; an order with an empty order_id, and two orders with the
\* same order_id; a line that is not JSON
FileNewFirst ==
    [name |-> <<"a", ".ndjson">>, path |-> "data/new/a.ndjson",
     file |-> [exists |-> TRUE, readable |-> TRUE,
               lines |-> <<JsonLine(Order(<<>>, sMailA)),
                           InvalidLine,
                           JsonLine(Order(sORD0003, sMailA))>>]]
FileNewSecond ==
    [name |-> <<"b", ".ndjson">>, path |-> "data/new/sub/b.ndjson",
     file |-> [exists |-> TRUE, readable |-> TRUE,
               lines |-> <<JsonLine(Order(sORD0003, sMailB))>>]]

\* data/odd: an order whose order_id is a number, between two regular orders; all
\* three have the same email
FileOddOrders ==
    [name |-> <<"odd", ".ndjson">>, path |-> "data/odd/odd.ndjson",
     file |-> [exists |-> TRUE, readable |-> TRUE,
               lines |-> <<JsonLine(Order(sORD0003, sMailA)),
                           JsonLine(PyDict([order_id |-> PyInt(7),
                                            customer_email |-> PyStr(sMailA)])),
                           JsonLine(Order(sORD0033, sMailA))>>]]

\* data/void: a file whose lines are blank or cannot be turned into a document, and
\* a file that cannot be read
FileVoidLines ==
    [name |-> <<"void", ".ndjson">>, path |-> "data/void/void.ndjson",
     file |-> [exists |-> TRUE, readable |-> TRUE,
               lines |-> <<BlankLine, InvalidLine,
                           JsonLine(PyDict([order_id |-> PyStr(sORD0001),
                                            shipping |-> PyNone]))>>]]
FileVoidLocked ==
    [name |-> <<"locked", ".ndjson">>, path |-> "data/void/locked.ndjson",
     file |-> [exists |-> TRUE, readable |-> FALSE,
               lines |-> <<JsonLine(Order(sORD0001, sMailZ))>>]]

\* data/anon: two orders whose order_id is empty, with the same email up to letter case
FileAnonOrders ==
    [name |-> <<"anon", ".ndjson">>, path |-> "data/anon/anon.ndjson",
     file |-> [exists |-> TRUE, readable |-> TRUE,
               lines |-> <<JsonLine(Order(<<>>, sMailA)),
                           JsonLine(Order(<<>>, sMailAUp))>>]]

\* what os.walk(folder_path) yields: the files below the folder, in walk order
Walk(folder_path) ==
    CASE folder_path = "data/raw" -> <<FileRawNotes, FileRawOrders>>
      [] folder_path = "data/new" -> <<FileNewFirst, FileNewSecond>>
      [] folder_path = "data/odd" -> <<FileOddOrders>>
      [] folder_path = "data/empty" -> <<FileRawNotes>>
      [] folder_path = "data/void" -> <<FileVoidLines, FileVoidLocked>>
      [] folder_path = "data/anon" -> <<FileAnonOrders>>
      [] OTHER -> <<>>            \* a folder that does not exist

Folders ==
    {"data/raw", "data/new", "data/odd", "data/empty", "data/void", "data/anon",
     "data/missing"}

Dirs == {"data/vectorstore", "alt/store"}

\* query texts
QueryTexts ==
    { sORD0003,                                                   \* ORD-0003
      <<"s","e","e"," ">> \o sOrd0003,                            \* see ord-0003
      sORD0033 \o <<"4">>,                                        \* ORD-00334
      <<"O","R","D","-","0","0","3">>,                            \* ORD-003
      sORD0001 \o <<" ">> \o sORD0003,                            \* ORD-0001 ORD-0003
      sMailA,                                                     \* a@x.com
      sORD0033 \o <<" ">> \o sMailA,                              \* ORD-0033 a@x.com
      sMailZ,                                                     \* z@q.io
      <<"l","a","t","e"," ","o","r","d","e","r","s">> }           \* late orders

\* relevance scores of the semantic search, in tenths: the backend derives them from
\* a distance and does not clamp them; distance 0 gives 1.0, a large distance a
\* negative score
SemScores == {10, 6, -3}

-----------------------------------------------------------------------------
(* Objects and the persisted index *)

NoStore == [h |-> "None"]
\* a Chroma handle on directory d; stale: the directory was wiped under it, and
\* seen holds the documents it had been opened on
Handle(d, stale) == [h |-> "Chroma", dir |-> d, stale |-> stale, seen |-> <<>>]

Idle == [op |-> "idle"]

\* __new__ without the check of cls._instance
NewAddrAlwaysAllocates == Len(heap) + 1

\* the address __new__ returns (lines 20-23)
NewAddr == IF cls_instance = 0 THEN Len(heap) + 1 ELSE cls_instance

\* the walk without the test of the file name
EndsWithNdjsonAlways(name) == TRUE

\* file.endswith('.ndjson') (line 116)
EndsWithNdjson(name) == name # <<>> /\ name[Len(name)] = ".ndjson"

RECURSIVE WalkDocuments(_)
\* the loop that collects all_documents (lines 113-120)
WalkDocuments(files) ==
    IF files = <<>> THEN <<>>
    ELSE (IF EndsWithNdjson(Head(files).name)
          THEN load_ndjson(Head(files).path, Head(files).file)
          ELSE <<>>)
         \o WalkDocuments(Tail(files))

AllDocuments(folder_path) == WalkDocuments(Walk(folder_path))

\* index_folder without the wipe of the persist directory
WipedNever(dsk, d) == dsk

\* shutil.rmtree + os.makedirs of the persist directory, when it exists (lines 129-132)
Wiped(dsk, d) ==
    IF dsk[d].exists
    THEN [dsk EXCEPT ![d] = [exists |-> TRUE, files |-> FALSE, docs |-> <<>>]]
    ELSE dsk

\* Chroma.from_documents: adds the documents to the collection persisted in d
Persisted(dsk, d, documents) ==
    [dsk EXCEPT ![d] = [exists |-> TRUE, files |-> TRUE, docs |-> dsk[d].docs \o documents]]

\* a wipe after which every manager on directory d holds a handle on it
StaledOpens(hp, d, docs) ==
    [a \in 1..Len(hp) |->
        IF hp[a].persist_directory = d
        THEN [hp[a] EXCEPT !.vector_store = Handle(d, FALSE)]
        ELSE hp[a]]

\* every handle open on directory d loses the files it was opened on, which held docs
Staled(hp, d, docs) ==
    [a \in 1..Len(hp) |->
        IF /\ hp[a].vector_store.h = "Chroma"
           /\ hp[a].vector_store.dir = d
           /\ ~hp[a].vector_store.stale
        THEN [hp[a] EXCEPT !.vector_store.stale = TRUE, !.vector_store.seen = docs]
        ELSE hp[a]]

InitDisks ==
    { [d \in Dirs |->
          IF d = "data/vectorstore" THEN here
          ELSE [exists |-> FALSE, files |-> FALSE, docs |-> <<>>]] :
      here \in { [exists |-> FALSE, files |-> FALSE, docs |-> <<>>],
                 [exists |-> TRUE, files |-> FALSE, docs |-> <<>>],
                 [exists |-> TRUE, files |-> TRUE, docs |-> AllDocuments("data/raw")] } }

Init ==
    /\ cls_instance = 0
    /\ heap = <<>>
    /\ disk \in InitDisks
    /\ lastIndexed = [set |-> FALSE]
    /\ buildFailed = FALSE
    /\ ret = Idle

\* RAGManager(persist_directory) whose __init__ has no test of _initialized
ConstructReinitializes(persist_directory) ==
    LET a == NewAddr
        fresh == [persist_directory |-> persist_directory,
                  embeddings |-> "all-MiniLM-L6-v2",
                  vector_store |-> NoStore,
                  initialized |-> TRUE]
    IN
    /\ ret = Idle
    /\ a <= MaxInstances
    /\ cls_instance' = a
    /\ heap' = IF a <= Len(heap) THEN [heap EXCEPT ![a] = fresh] ELSE Append(heap, fresh)
    /\ disk' = [disk EXCEPT ![persist_directory].exists = TRUE]
    /\ ret' = [op |-> "RAGManager", persist_directory |-> persist_directory, result |-> a]
    /\ UNCHANGED <<lastIndexed, buildFailed>>

\* RAGManager(persist_directory): __new__ then __init__ (lines 20-39)
Construct(persist_directory) ==
    LET a == NewAddr IN
    /\ ret = Idle
    /\ a <= MaxInstances
    /\ cls_instance' = a
    /\ IF a <= Len(heap) /\ heap[a].initialized
       THEN UNCHANGED <<heap, disk>>
       ELSE /\ heap' = Append(heap, [persist_directory |-> persist_directory,
                                     embeddings |-> "all-MiniLM-L6-v2",
                                     vector_store |-> NoStore,
                                     initialized |-> TRUE])
            /\ disk' = [disk EXCEPT ![persist_directory].exists = TRUE]
    /\ ret' = [op |-> "RAGManager", persist_directory |-> persist_directory, result |-> a]
    /\ UNCHANGED <<lastIndexed, buildFailed>>

\* index_folder(folder_path) that returns normally (lines 109-140)
IndexFolder(self, folder_path) ==
    LET all_documents == AllDocuments(folder_path)
        d == heap[self].persist_directory
    IN
    /\ ret = Idle
    /\ IF all_documents = <<>>
       THEN UNCHANGED <<heap, disk, lastIndexed>>
       ELSE /\ disk' = Persisted(Wiped(disk, d), d, all_documents)
            /\ heap' = [Staled(heap, d, disk[d].docs) EXCEPT
                            ![self].vector_store = Handle(d, FALSE)]
            /\ lastIndexed' = [set |-> TRUE, docs |-> all_documents]
    /\ ret' = [op |-> "index_folder", self |-> self, folder_path |-> folder_path,
               before_docs |-> disk[d].docs, all_documents |-> all_documents,
               raised |-> FALSE]
    /\ UNCHANGED <<cls_instance, buildFailed>>

\* index_folder(folder_path) whose Chroma.from_documents raises (lines 129-139):
\* the wipe has happened; the backend may or may not have created its files
IndexFolderFails(self, folder_path) ==
    LET all_documents == AllDocuments(folder_path)
        d == heap[self].persist_directory
    IN
    /\ ret = Idle
    /\ all_documents # <<>>
    /\ \E created \in BOOLEAN :
          disk' = [Wiped(disk, d) EXCEPT ![d].exists = @ \/ created, ![d].files = created]
    /\ heap' = Staled(heap, d, disk[d].docs)
    /\ buildFailed' = TRUE
    /\ ret' = [op |-> "index_folder", self |-> self, folder_path |-> folder_path,
               before_docs |-> disk[d].docs, all_documents |-> all_documents,
               raised |-> TRUE]
    /\ UNCHANGED <<cls_instance, lastIndexed>>

\* get_vector_store that opens the persist directory whatever it holds
LoadedStoreAlwaysOpens(self) ==
    IF heap[self].vector_store = NoStore
    THEN Handle(heap[self].persist_directory, FALSE)
    ELSE heap[self].vector_store

\* get_vector_store without the os.listdir test
LoadedStoreIgnoresListdir(self) ==
    LET d == heap[self].persist_directory IN
    IF heap[self].vector_store = NoStore
    THEN IF disk[d].exists THEN Handle(d, FALSE) ELSE NoStore
    ELSE heap[self].vector_store

\* get_vector_store that looks at the persist directory on every call
LoadedStoreForgets(self) ==
    LET d == heap[self].persist_directory IN
    IF disk[d].exists /\ disk[d].files THEN Handle(d, FALSE) ELSE NoStore

\* the value of self.vector_store after get_vector_store (lines 144-152)
LoadedStore(self) ==
    LET d == heap[self].persist_directory IN
    IF heap[self].vector_store = NoStore
    THEN IF disk[d].exists /\ disk[d].files THEN Handle(d, FALSE) ELSE NoStore
    ELSE heap[self].vector_store

\* get_vector_store() (lines 142-153)
GetVectorStore(self) ==
    /\ ret = Idle
    /\ heap' = [heap EXCEPT ![self].vector_store = LoadedStore(self)]
    /\ ret' = [op |-> "get_vector_store", self |-> self, before |-> heap[self].vector_store,
               result |-> LoadedStore(self)]
    /\ UNCHANGED <<cls_instance, disk, lastIndexed, buildFailed>>

\* the caller takes the result; the next call can start
Return ==
    /\ ret # Idle
    /\ ret' = Idle
    /\ UNCHANGED <<cls_instance, heap, disk, lastIndexed, buildFailed>>

-----------------------------------------------------------------------------
(* query: hybrid search *)

Min(a, b) == IF a < b THEN a ELSE b

\* seq[:k] for k >= 0
Take(seq, k) == SubSeq(seq, 1, Min(k, Len(seq)))

\* what store.similarity_search_with_relevance_scores(text, k) can answer on docs:
\* min(k, number of documents) distinct documents (by position) with scores that
\* do not increase
SemanticAnswers(docs, k) ==
    LET m == Min(k, Len(docs)) IN
    { r \in [1..m -> [at : 1..Len(docs), score : SemScores]] :
        /\ \A i, j \in 1..m : i # j => r[i].at # r[j].at
        /\ \A i \in 1..(m - 1) : r[i].score >= r[i + 1].score }

\* examining document i of the scan raises: .upper()/.lower() of a non-string (lines 187-189)
ScanRaisesAt(doc, target_id, target_email) ==
    LET doc_id == DictGet(doc.metadata, "order_id", PyNone)
        doc_email == DictGet(doc.metadata, "customer_email", PyNone)
    IN  \/ Truthy(target_id) /\ Truthy(doc_id) /\ doc_id.t # "str"
        \/ Truthy(target_email) /\ Truthy(doc_email) /\ doc_email.t # "str"

\* the match without .upper() and .lower()
IsExactMatchCaseSensitive(doc, target_id, target_email) ==
    LET doc_id == DictGet(doc.metadata, "order_id", PyNone)
        doc_email == DictGet(doc.metadata, "customer_email", PyNone)
    IN  \/ Truthy(target_id) /\ Truthy(doc_id) /\ target_id.s = doc_id.s
        \/ Truthy(target_email) /\ Truthy(doc_email) /\ target_email.s = doc_email.s

\* is_id_match or is_email_match (lines 187-191)
IsExactMatch(doc, target_id, target_email) ==
    LET doc_id == DictGet(doc.metadata, "order_id", PyNone)
        doc_email == DictGet(doc.metadata, "customer_email", PyNone)
    IN  \/ Truthy(target_id) /\ Truthy(doc_id) /\ Upper(target_id.s) = Upper(doc_id.s)
        \/ Truthy(target_email) /\ Truthy(doc_email) /\ Lower(target_email.s) = Lower(doc_email.s)

\* current_id = doc_id or f"email_{i}", i counted from 0 (line 192)
CurrentId(doc, i) ==
    LET doc_id == DictGet(doc.metadata, "order_id", PyNone)
    IN  IF Truthy(doc_id) THEN doc_id
        ELSE PyStr(<<"e","m","a","i","l","_">> \o IntChars(i - 1))

\* the key under which the vector pass looks a document up in found_ids (line 205)
VectorId(doc) == DictGet(doc.metadata, "order_id", PyNone)

\* one entry of the result; via and at (how it was found, and the position of its
\* document in the store) are not in the program's dict: they label the entry
Entry(doc, score, via, at) ==
    [content |-> doc.page_content,
     document_id |-> DictGet(doc.metadata, "source", PyStr(<<"unknown">>)),
     score |-> score, via |-> via, at |-> at]

RECURSIVE Scan(_, _, _, _, _)
\* the loop over all_docs from document i on (lines 182-199); an exception ends it
Scan(docs, i, target_id, target_email, acc) ==
    IF i > Len(docs) THEN acc
    ELSE IF ScanRaisesAt(docs[i], target_id, target_email)
         THEN [acc EXCEPT !.raised = TRUE]
    ELSE IF /\ IsExactMatch(docs[i], target_id, target_email)
            /\ CurrentId(docs[i], i) \notin acc.found_ids
         THEN Scan(docs, i + 1, target_id, target_email,
                   [acc EXCEPT !.sources = Append(@, Entry(docs[i], 10, "exact", i)),
                               !.found_ids = @ \cup {CurrentId(docs[i], i)}])
    ELSE Scan(docs, i + 1, target_id, target_email, acc)

RECURSIVE AddVectorNoRecord(_, _, _, _)
\* AddVector without found_ids.add(doc_id)
AddVectorNoRecord(docs, results, j, acc) ==
    IF j > Len(results) THEN acc
    ELSE LET doc == docs[results[j].at] IN
         IF VectorId(doc) \notin acc.found_ids
         THEN AddVectorNoRecord(docs, results, j + 1,
                                [acc EXCEPT !.sources = Append(@, Entry(doc, results[j].score,
                                                                        "semantic", results[j].at))])
         ELSE AddVectorNoRecord(docs, results, j + 1, acc)

RECURSIVE AddVector(_, _, _, _)
\* the loop over the vector results from result j on (lines 204-212)
AddVector(docs, results, j, acc) ==
    IF j > Len(results) THEN acc
    ELSE LET doc == docs[results[j].at] IN
         IF VectorId(doc) \notin acc.found_ids
         THEN AddVector(docs, results, j + 1,
                        [acc EXCEPT !.sources = Append(@, Entry(doc, results[j].score,
                                                                "semantic", results[j].at)),
                                    !.found_ids = @ \cup {VectorId(doc)}])
         ELSE AddVector(docs, results, j + 1, acc)

\* sources with the vector results added before the exact matches
SourcesVectorFirst(docs, text, results, get_fails) ==
    LET target_id == IdSearch(text)
        target_email == EmailSearch(text)
        start == [sources |-> <<>>, found_ids |-> {}, raised |-> FALSE]
        vector == AddVector(docs, results, 1, start)
    IN  IF (Truthy(target_id) \/ Truthy(target_email)) /\ ~get_fails
        THEN Scan(docs, 1, target_id, target_email, vector).sources
        ELSE vector.sources

\* sources before the final slice
Sources(docs, text, results, get_fails) ==
    LET target_id == IdSearch(text)
        target_email == EmailSearch(text)
        start == [sources |-> <<>>, found_ids |-> {}, raised |-> FALSE]
        exact == IF (Truthy(target_id) \/ Truthy(target_email)) /\ ~get_fails
                 THEN Scan(docs, 1, target_id, target_email, start)
                 ELSE start
    IN  AddVector(docs, results, 1, exact).sources

\* the result without the final slice
TruncatedNever(sources, k) == sources

\* the list query returns (line 214)
Truncated(sources, k) == Take(sources, k)

QueryResult(docs, text, k, results, get_fails) ==
    Truncated(Sources(docs, text, results, get_fails), k)

Targeted(text) == Truthy(IdSearch(text)) \/ Truthy(EmailSearch(text))

\* query(text, k) (lines 155-214)
Query(self, text, k) ==
    LET store == LoadedStore(self)
        call == [op |-> "query", self |-> self, text |-> text, k |-> k,
                 before |-> heap[self].vector_store, store |-> store]
    IN
    /\ ret = Idle
    /\ heap' = [heap EXCEPT ![self].vector_store = store]
    /\ UNCHANGED <<cls_instance, disk, lastIndexed, buildFailed>>
    /\ IF store = NoStore
       THEN ret' = call @@ [searched |-> FALSE, scanned |-> FALSE, raised |-> FALSE,
                            result |-> <<>>]
       ELSE \/ \* the backend rejects the search: k = 0, or a handle whose files are gone
               /\ k = 0 \/ store.stale
               /\ ret' = call @@ [searched |-> TRUE, scanned |-> FALSE, raised |-> TRUE]
            \/ \* the search answers; a handle whose files are gone reads what the
               \* directory holds now or what it held when the handle was opened
               \E docs \in (IF store.stale THEN {disk[store.dir].docs, store.seen}
                                          ELSE {disk[store.dir].docs}) :
               \E results \in SemanticAnswers(docs, k) :
               \E get_fails \in (IF Targeted(text) THEN BOOLEAN ELSE {FALSE}) :
                  ret' = call @@ [searched |-> TRUE, scanned |-> Targeted(text),
                                  raised |-> FALSE, docs |-> docs, results |-> results,
                                  get_fails |-> get_fails,
                                  scan_raised |->
                                      /\ Targeted(text) /\ ~get_fails
                                      /\ Scan(docs, 1, IdSearch(text), EmailSearch(text),
                                              [sources |-> <<>>, found_ids |-> {},
                                               raised |-> FALSE]).raised,
                                  result |-> QueryResult(docs, text, k, results, get_fails)]

Next ==
    \/ \E d \in Dirs : Construct(d)
    \/ \E self \in 1..Len(heap), f \in Folders : IndexFolder(self, f)
    \/ \E self \in 1..Len(heap), f \in Folders : IndexFolderFails(self, f)
    \/ \E self \in 1..Len(heap) : GetVectorStore(self)
    \/ \E self \in 1..Len(heap), text \in QueryTexts, k \in 0..MaxK : Query(self, text, k)
    \/ Return

Spec == Init /\ [][Next]_vars

-----------------------------------------------------------------------------
(* The document builder on its own: load_ndjson on one-line files *)

MaxTags == 3        \* a tags list holds at most MaxTags tags

sVip == <<"v","i","p">>
sNew == <<"n","e","w">>
sPaid == <<"p","a","i","d">>
sBonn == <<"B","o","n","n">>
sDE == <<"D","E">>
sSave == <<"S","A","V","E">>

\* the tag strings used; one tag holds a comma and a blank itself
TagWords == {sVip, sNew, <<"x", ",", " ", "y">>}

RECURSIVE SeqsUpTo(_, _)
\* the sequences over S of length at most n
SeqsUpTo(S, n) ==
    IF n = 0 THEN {<<>>}
    ELSE LET shorter == SeqsUpTo(S, n - 1)
         IN  shorter \cup {Append(q, x) : q \in {r \in shorter : Len(r) = n - 1}, x \in S}

TagLists == SeqsUpTo(TagWords, MaxTags)

\* the ways a delimited string separates its tags
Delimiters == {<<",">>, <<",", " ">>}

Absent == [t |-> "absent"]

\* a record from the value chosen for each field (Absent: the key is missing)
RecordOf(choice) ==
    PyDict([f \in {g \in DOMAIN choice : choice[g] # Absent} |-> choice[f]])

RawRecords ==
    { RecordOf([order_id |-> o, customer_email |-> c, status |-> st, shipping |-> sh,
                tags |-> tg, coupon_code |-> cp, is_gift |-> g]) :
        o \in {Absent, PyStr(sORD0003)},
        c \in {Absent, PyStr(sMailA)},
        st \in {Absent, PyStr(sPaid)},
        sh \in {Absent, EmptyDict, PyDict([city |-> PyStr(sBonn)]),
                PyDict([city |-> PyStr(sBonn), country_code |-> PyStr(sDE)])},
        tg \in {Absent, PyNone, PyList(<<>>), PyList(<<PyStr(sVip)>>),
                PyList(<<PyStr(sVip), PyStr(sNew)>>), PyStr(<<>>), PyStr(sVip),
                PyStr(sVip \o <<",">> \o sNew)},
        cp \in {Absent, PyNone, PyStr(<<>>), PyStr(sSave)},
        g \in {Absent, PyBool(TRUE), PyBool(FALSE)} }

OneLineFile(data) == [exists |-> TRUE, readable |-> TRUE, lines |-> <<JsonLine(data)>>]

\* load_ndjson on a file that holds the record as its only line
LoadRecord(data) ==
    /\ ret = Idle
    /\ ret' = [op |-> "load_ndjson", data |-> data,
               result |-> load_ndjson("probe.ndjson", OneLineFile(data))]
    /\ UNCHANGED <<cls_instance, heap, disk, lastIndexed, buildFailed>>

\* load_ndjson on the same tags given as a list and as one delimited string
LoadTagsPair(tags, delimiter) ==
    /\ ret = Idle
    /\ ret' = [op |-> "load_tags", tags |-> tags, delimiter |-> delimiter,
               as_list |-> load_ndjson("probe.ndjson",
                   OneLineFile(PyDict([tags |-> PyList([i \in 1..Len(tags) |-> PyStr(tags[i])])]))),
               as_string |-> load_ndjson("probe.ndjson",
                   OneLineFile(PyDict([tags |-> PyStr(Join(delimiter, tags))])))]
    /\ UNCHANGED <<cls_instance, heap, disk, lastIndexed, buildFailed>>

MaxLines == 3       \* a scanned file holds at most MaxLines lines

\* the lines a scanned file is made of: blank, not JSON, JSON that is not an object,
\* objects with shipping: null, shipping a string, a number among the tags, and two
\* records that build a document
ScannedLines ==
    { BlankLine,
      InvalidLine,
      JsonLine(PyInt(7)),
      JsonLine(PyList(<<>>)),
      JsonLine(PyDict([order_id |-> PyStr(sORD0001), shipping |-> PyNone])),
      JsonLine(PyDict([order_id |-> PyStr(sORD0001), shipping |-> PyStr(sBonn)])),
      JsonLine(PyDict([order_id |-> PyStr(sORD0001),
                       tags |-> PyList(<<PyStr(sVip), PyInt(1)>>)])),
      JsonLine(Order(sORD0003, sMailA)),
      JsonLine(PyDict([order_id |-> PyInt(7), tags |-> PyInt(1),
                       shipping |-> PyDict([city |-> PyStr(sBonn)])])) }

\* load_ndjson on a file of several lines; a file that cannot be read to its end
\* raises in the outer try (lines 53-105)
LoadFile(lines, readable) ==
    /\ ret = Idle
    /\ ret' = [op |-> "load_file", lines |-> lines, readable |-> readable,
               result |-> load_ndjson("probe.ndjson",
                              [exists |-> TRUE, readable |-> readable, lines |-> lines])]
    /\ UNCHANGED <<cls_instance, heap, disk, lastIndexed, buildFailed>>

NextDoc ==
    \/ \E data \in RawRecords : LoadRecord(data)
    \/ \E lines \in SeqsUpTo(ScannedLines, MaxLines), readable \in BOOLEAN :
          LoadFile(lines, readable)
    \/ \E tags \in TagLists, delimiter \in Delimiters : LoadTagsPair(tags, delimiter)
    \/ Return

SpecDoc == Init /\ [][NextDoc]_vars

-----------------------------------------------------------------------------
(* The Order model: src/src/models/order.py, src/src/models/shipping.py *)

\* a float, in hundredths
PyFloat(c) == [t |-> "float", c |-> c]
\* a member of the enum OrderStatus, a datetime, a Shipping instance
StatusMember(value) == [t |-> "OrderStatus", value |-> value]
DateTime(iso) == [t |-> "datetime", iso |-> iso]

\* the outcome of a validator: it raised, or it returned a value
Raised == [raised |-> TRUE]
Returned(v) == [raised |-> FALSE, value |-> v]

Whitespace == {" ", "\t", "\n"}

RECURSIVE LStrip(_)
LStrip(s) == IF s # <<>> /\ Head(s) \in Whitespace THEN LStrip(Tail(s)) ELSE s
RECURSIVE RStrip(_)
RStrip(s) ==
    IF s # <<>> /\ s[Len(s)] \in Whitespace THEN RStrip(SubSeq(s, 1, Len(s) - 1)) ELSE s
\* str.strip()
Strip(s) == RStrip(LStrip(s))

DigitValue(c) == (CHOOSE i \in 1..10 : DigitSeq[i] = c) - 1

RECURSIVE DigitsValue(_, _)
\* the number written by the digits of s, underscores skipped
DigitsValue(s, acc) ==
    IF s = <<>> THEN acc
    ELSE IF Head(s) = "_" THEN DigitsValue(Tail(s), acc)
    ELSE DigitsValue(Tail(s), acc * 10 + DigitValue(Head(s)))

\* digits, with single underscores allowed between them
IsDigitRun(s) ==
    /\ s # <<>>
    /\ s[1] \in Digits /\ s[Len(s)] \in Digits
    /\ \A i \in 1..Len(s) : s[i] \in Digits \cup {"_"}
    /\ \A i \in 1..(Len(s) - 1) : ~(s[i] = "_" /\ s[i + 1] = "_")

\* the integer written by the digits body, negated for a minus sign; else ValueError
IntOfDigits(body, negative) ==
    IF IsDigitRun(body)
    THEN Returned((IF negative THEN 0 - 1 ELSE 1) * DigitsValue(body, 0))
    ELSE Raised

\* the integer written by t: an optional sign, then digits
IntOfSigned(t) ==
    IF t # <<>> /\ t[1] \in {"+", "-"} THEN IntOfDigits(Tail(t), t[1] = "-")
    ELSE IntOfDigits(t, FALSE)

\* int(v) of a str: blanks around, an optional sign, decimal digits; else ValueError
IntOfStr(s) == IntOfSigned(Strip(s))

\* the hundredths written by the digits whole before and frac after the point
FloatOfParts(whole, frac, negative) ==
    IF /\ whole = <<>> \/ IsDigitRun(whole)
       /\ frac = <<>> \/ (IsDigitRun(frac) /\ Len(frac) <= 2)
       /\ whole # <<>> \/ frac # <<>>
    THEN Returned((IF negative THEN 0 - 1 ELSE 1)
                  * (DigitsValue(whole, 0) * 100
                     + DigitsValue(frac, 0) * (IF Len(frac) = 1 THEN 10 ELSE 1)))
    ELSE Raised

\* body split at its first point, if it has one
FloatOfBody(body, negative) ==
    LET points == {i \in 1..Len(body) : body[i] = "."}
        p == IF points = {} THEN Len(body) + 1
             ELSE CHOOSE i \in points : \A j \in points : i <= j
    IN  FloatOfParts(SubSeq(body, 1, p - 1), SubSeq(body, p + 1, Len(body)), negative)

FloatOfSigned(t) ==
    IF t # <<>> /\ t[1] \in {"+", "-"} THEN FloatOfBody(Tail(t), t[1] = "-")
    ELSE FloatOfBody(t, FALSE)

\* float(v) of a str, in hundredths, for decimal notation with at most two digits
\* after the point: blanks around, an optional sign, digits, an optional fraction
FloatOfStr(s) == FloatOfSigned(Strip(s))

\* the int validator of the library, not strict: an int, a bool, a float without
\* fractional part
IntField(v) ==
    CASE v.t = "int" -> Returned(v.n)
      [] v.t = "bool" -> Returned(IF v.b THEN 1 ELSE 0)
      [] v.t = "float" /\ v.c % 100 = 0 -> Returned(v.c \div 100)
      [] OTHER -> Raised

\* the float validator of the library, not strict, in hundredths
FloatField(v) ==
    CASE v.t = "float" -> Returned(v.c)
      [] v.t = "int" -> Returned(v.n * 100)
      [] v.t = "bool" -> Returned(IF v.b THEN 100 ELSE 0)
      [] OTHER -> Raised

\* the value a before-validator returned, given to the int validator of the library
IntOutcome(n) == IF n.raised THEN Raised ELSE IntField(n.value)

\* the value a before-validator returned, given to the float validator of the library
FloatOutcome(n) == IF n.raised THEN Raised ELSE FloatField(n.value)

\* the Python int or float for a parsed number
AsPyInt(r) == IF r.raised THEN Raised ELSE Returned(PyInt(r.value))
AsPyFloat(r) == IF r.raised THEN Raised ELSE Returned(PyFloat(r.value))

\* the strings normalize_quantity refuses (line 68)
QuantityNA == {<<"n","/","a">>, <<"n","a">>, <<"n","o","n","e">>, <<>>}

\* normalize_quantity (lines 63-74)
normalize_quantity(v) ==
    IF v.t = "str"
    THEN IF Lower(v.s) \in QuantityNA THEN Raised ELSE AsPyInt(IntOfStr(v.s))
    ELSE Returned(v)

\* the field quantity declared without gt=0
QuantityConstraintNone(n) == TRUE

\* Field(..., gt=0) of quantity (line 32)
QuantityConstraint(n) == n > 0

QuantityBounded(i) ==
    IF ~i.raised /\ QuantityConstraint(i.value) THEN Returned(PyInt(i.value)) ELSE Raised

\* the field quantity: required, normalize_quantity, int, gt=0 (lines 32, 63-74)
QuantityField(v) ==
    IF v = Absent THEN Raised ELSE QuantityBounded(IntOutcome(normalize_quantity(v)))

\* normalize_price (lines 76-85)
normalize_price(v) ==
    IF v.t = "str" THEN AsPyFloat(FloatOfStr(v.s)) ELSE Returned(v)

PriceBounded(x) ==
    IF ~x.raised /\ x.value >= 0 THEN Returned(PyFloat(x.value)) ELSE Raised

\* the field unit_price: required, normalize_price, float, ge=0 (lines 33, 76-85)
PriceField(v) ==
    IF v = Absent THEN Raised ELSE PriceBounded(FloatOutcome(normalize_price(v)))

TrueWords == {<<"t","r","u","e">>, <<"y","e","s">>, <<"1">>, <<"y">>}
FalseWords == {<<"f","a","l","s","e">>, <<"n","o">>, <<"0">>, <<"n">>}

\* normalize_boolean comparing v itself, not v.lower()
normalize_boolean_CaseSensitive(v) ==
    IF v.t = "bool" THEN Returned(v)
    ELSE IF v.t = "str"
         THEN IF v.s \in TrueWords THEN Returned(PyBool(TRUE))
              ELSE IF v.s \in FalseWords THEN Returned(PyBool(FALSE))
              ELSE Raised
    ELSE IF v.t = "int" THEN Returned(PyBool(v.n # 0))
    ELSE Raised

\* normalize_boolean (lines 87-103)
normalize_boolean(v) ==
    IF v.t = "bool" THEN Returned(v)
    ELSE IF v.t = "str"
         THEN IF Lower(v.s) \in TrueWords THEN Returned(PyBool(TRUE))
              ELSE IF Lower(v.s) \in FalseWords THEN Returned(PyBool(FALSE))
              ELSE Raised
    ELSE IF v.t = "int" THEN Returned(PyBool(v.n # 0))
    ELSE Raised

\* the field is_gift: default False, else normalize_boolean, bool (lines 34, 87-103)
GiftField(v) ==
    IF v = Absent THEN Returned(PyBool(FALSE)) ELSE normalize_boolean(v)

RECURSIVE Split(_, _)
\* s.split(sep) for a separator of one character
Split(s, sep) ==
    IF \E i \in 1..Len(s) : s[i] = sep
    THEN LET i == CHOOSE a \in 1..Len(s) : s[a] = sep /\ \A b \in 1..(a - 1) : s[b] # sep
         IN  <<SubSeq(s, 1, i - 1)>> \o Split(SubSeq(s, i + 1, Len(s)), sep)
    ELSE <<s>>

RECURSIVE StrippedTags(_)
\* [tag.strip() for tag in pieces if tag.strip()] (line 113)
StrippedTags(pieces) ==
    IF pieces = <<>> THEN <<>>
    ELSE (IF Strip(Head(pieces)) # <<>> THEN <<PyStr(Strip(Head(pieces)))>> ELSE <<>>)
         \o StrippedTags(Tail(pieces))

\* normalize_tags (lines 105-114)
normalize_tags(v) ==
    IF v.t = "none" \/ v = PyStr(<<>>) THEN PyNone
    ELSE IF v.t = "str" THEN PyList(StrippedTags(Split(v.s, ",")))
    ELSE v

\* the field tags: default None, else normalize_tags, Optional[List[str]] (lines 38, 105-114)
TagsChecked(n) ==
    IF \/ n.t = "none"
       \/ n.t = "list" /\ \A i \in 1..Len(n.items) : n.items[i].t = "str"
    THEN Returned(n) ELSE Raised

TagsField(v) == IF v = Absent THEN Returned(PyNone) ELSE TagsChecked(normalize_tags(v))

\* priority_map (line 122)
priority_map(word) ==
    CASE word = <<"l","o","w">> -> 5
      [] word = <<"m","e","d","i","u","m">> -> 3
      [] word = <<"h","i","g","h">> -> 1
      [] word = <<"u","r","g","e","n","t">> -> 1

PriorityWords == {<<"l","o","w">>, <<"m","e","d","i","u","m">>, <<"h","i","g","h">>, <<"u","r","g","e","n","t">>}

\* normalize_priority looking v itself up in priority_map, not v.lower()
normalize_priority_CaseSensitive(v) ==
    IF v.t = "str"
    THEN IF v.s \in PriorityWords THEN Returned(PyInt(priority_map(v.s)))
         ELSE AsPyInt(IntOfStr(v.s))
    ELSE Returned(v)

\* normalize_priority (lines 116-129)
normalize_priority(v) ==
    IF v.t = "str"
    THEN IF Lower(v.s) \in PriorityWords THEN Returned(PyInt(priority_map(Lower(v.s))))
         ELSE AsPyInt(IntOfStr(v.s))
    ELSE Returned(v)

PriorityBounded(i) ==
    IF ~i.raised /\ i.value >= 1 /\ i.value <= 5 THEN Returned(PyInt(i.value)) ELSE Raised

\* the field priority: required, normalize_priority, int, ge=1, le=5 (lines 41, 116-129)
PriorityField(v) ==
    IF v = Absent THEN Raised ELSE PriorityBounded(IntOutcome(normalize_priority(v)))

\* the field order_id: required, a str that matches ^ORD-\d{4}$ (line 30)
OrderIdField(v) ==
    IF /\ v # Absent /\ v.t = "str"
       /\ Len(v.s) = 8 /\ SubSeq(v.s, 1, 4) = <<"O", "R", "D", "-">>
       /\ \A i \in 5..8 : v.s[i] \in Digits
    THEN Returned(v) ELSE Raised

EmailOfLabels(local, domain, labels) ==
    IF /\ local # <<>>
       /\ \A i \in 1..Len(local) : local[i] \in WordChars \cup {".", "+", "-"}
       /\ Len(labels) >= 2
       /\ \A i \in 1..Len(labels) :
             /\ labels[i] # <<>>
             /\ \A j \in 1..Len(labels[i]) :
                   labels[i][j] \in Lowers \cup Uppers \cup Digits \cup {"-"}
    THEN Returned(PyStr(local \o <<"@">> \o Lower(domain)))
    ELSE Raised

EmailOfParts(local, domain) == EmailOfLabels(local, domain, Split(domain, "."))

\* the field customer_email: required, EmailStr (line 31): one "@" between a local
\* part and a domain of two or more labels; the domain is stored in lower case
EmailField(v) ==
    IF v = Absent \/ v.t # "str" THEN Raised
    ELSE LET ats == {i \in 1..Len(v.s) : v.s[i] = "@"}
             a == CHOOSE i \in ats : TRUE
         IN  IF Cardinality(ats) # 1 THEN Raised
             ELSE EmailOfParts(SubSeq(v.s, 1, a - 1), SubSeq(v.s, a + 1, Len(v.s)))

\* the values of OrderStatus (lines 14-21)
OrderStatus == {"pending", "paid", "shipped", "cancelled", "refunded"}

\* the field status: required, a member of OrderStatus or the value of one (line 35)
StatusField(v) ==
    IF v = Absent THEN Raised
    ELSE IF v.t = "OrderStatus" THEN Returned(v)
    ELSE IF v.t = "str" /\ Len(v.s) = 1 /\ v.s[1] \in OrderStatus
         THEN Returned(StatusMember(v.s[1]))
    ELSE Raised

\* the timestamps that parse as ISO 8601
IsoTimestamps == {"2025-01-10T09:15:00Z"}

\* the field created_at: required, a datetime or a string that parses as one (line 36)
CreatedAtField(v) ==
    IF v = Absent THEN Raised
    ELSE IF v.t = "datetime" THEN Returned(v)
    ELSE IF v.t = "str" /\ Len(v.s) = 1 /\ v.s[1] \in IsoTimestamps
         THEN Returned(DateTime(v.s[1]))
    ELSE Raised

\* Shipping.VALID_COUNTRIES (shipping.py lines 19-34)
VALID_COUNTRIES ==
    { <<"U","S">>, <<"G","B">>, <<"D","E">>, <<"F","R">>, <<"E","S">>, <<"P","T">>, <<"I","E">>,
      <<"C","Z">>, <<"P","L">>, <<"I","T">>, <<"N","L">>, <<"B","E">>, <<"A","T">>, <<"C","H">> }

\* Shipping.normalize_postal_code (shipping.py lines 45-53), for None, str and int
normalize_postal_code(v) ==
    IF v.t = "none" \/ (v.t = "str" /\ Strip(v.s) = <<>>) THEN PyNone
    ELSE IF v.t = "int" THEN PyStr(IntChars(v.n))
    ELSE PyStr(Strip(Fmt(v)))

\* Shipping(**v) (shipping.py lines 9-53): country_code of two characters that is,
\* in upper case, a valid country; a city of one character or more; postal_code
ShippingModel(v) ==
    LET country == DictGet(v, "country_code", Absent)
        city == DictGet(v, "city", Absent)
    IN  IF /\ country # Absent /\ country.t = "str" /\ Len(country.s) = 2
           /\ Upper(country.s) \in VALID_COUNTRIES
           /\ city # Absent /\ city.t = "str" /\ Len(city.s) >= 1
        THEN Returned([t |-> "Shipping", country_code |-> PyStr(Upper(country.s)),
                       city |-> city,
                       postal_code |->
                           IF "postal_code" \in DOMAIN v.items
                           THEN normalize_postal_code(v.items.postal_code) ELSE PyNone])
        ELSE Raised

\* the field shipping: required, a Shipping instance or a dict that validates as one
\* (line 37)
ShippingField(v) ==
    IF v = Absent THEN Raised
    ELSE IF v.t = "Shipping" THEN Returned(v)
    ELSE IF v.t = "dict" THEN ShippingModel(v)
    ELSE Raised

\* the fields referrer_url and coupon_code: Optional[str], default None (lines 39-40)
OptionalStrField(v) ==
    IF v = Absent THEN Returned(PyNone)
    ELSE IF v.t \in {"none", "str"} THEN Returned(v)
    ELSE Raised

\* the limit of the order total (line 140)
MaxTotal == 100000

\* validate_business_rules (lines 131-143); unit_price is in hundredths
validate_business_rules(order) ==
    IF order.unit_price.c = 0 /\ order.quantity.n > 0 THEN Raised
    ELSE IF order.quantity.n * order.unit_price.c > MaxTotal * 100 THEN Raised
    ELSE Returned(order)

OrderFields ==
    {"order_id", "customer_email", "quantity", "unit_price", "is_gift", "status",
     "created_at", "shipping", "tags", "referrer_url", "coupon_code", "priority"}

\* the field validators, applied to the value given for the field (Absent: not given)
FieldOutcomes(data) ==
    [order_id |-> OrderIdField(DictGet(data, "order_id", Absent)),
     customer_email |-> EmailField(DictGet(data, "customer_email", Absent)),
     quantity |-> QuantityField(DictGet(data, "quantity", Absent)),
     unit_price |-> PriceField(DictGet(data, "unit_price", Absent)),
     is_gift |-> GiftField(DictGet(data, "is_gift", Absent)),
     status |-> StatusField(DictGet(data, "status", Absent)),
     created_at |-> CreatedAtField(DictGet(data, "created_at", Absent)),
     shipping |-> ShippingField(DictGet(data, "shipping", Absent)),
     tags |-> TagsField(DictGet(data, "tags", Absent)),
     referrer_url |-> OptionalStrField(DictGet(data, "referrer_url", Absent)),
     coupon_code |-> OptionalStrField(DictGet(data, "coupon_code", Absent)),
     priority |-> PriorityField(DictGet(data, "priority", Absent))]

\* the outcome of the model validator as the outcome of the construction
ModelOutcome(r) == IF r.raised THEN [raised |-> TRUE, errors |-> {"model"}] ELSE r

\* the instance for the outcomes of the field validators, if none raised
OrderOf(outcome) ==
    IF \E f \in OrderFields : outcome[f].raised
    THEN [raised |-> TRUE, errors |-> {f \in OrderFields : outcome[f].raised}]
    ELSE ModelOutcome(validate_business_rules([f \in OrderFields |-> outcome[f].value]))

\* Order(**data) (lines 24-143): a ValidationError that names the fields refused, or
\* "model" when validate_business_rules raised; else the instance
NewOrder(data) == OrderOf(FieldOutcomes(data))

\* self.model_dump(): a new dict of the field values; the Shipping instance is
\* dumped to a dict of its own
model_dump(order) ==
    PyDict([f \in OrderFields |->
               IF f = "shipping"
               THEN PyDict([country_code |-> order.shipping.country_code,
                            city |-> order.shipping.city,
                            postal_code |-> order.shipping.postal_code])
               ELSE order[f]])

sAnonymized == <<"a","n","o","n","y","m","i","z","e","d","@","e","x","a","m","p","l","e",".","c","o","m">>

\* anonymize_pii that assigns the address to self and returns self
anonymize_pii_InPlace(order) ==
    [self |-> [order EXCEPT !.customer_email = PyStr(sAnonymized)],
     result |-> Returned([order EXCEPT !.customer_email = PyStr(sAnonymized)])]

\* anonymize_pii (lines 145-152): self as the call leaves it, and what the call
\* returns or that it raised
anonymize_pii(order) ==
    LET anonymized_data ==
            PyDict([model_dump(order).items EXCEPT !.customer_email = PyStr(sAnonymized)])
    IN  [self |-> order, result |-> NewOrder(anonymized_data)]

-----------------------------------------------------------------------------
(* Orders created and anonymized *)

\* sample_order_data (src/tests/conftest.py lines 14-33)
sample_order_data ==
    [order_id |-> PyStr(sORD0001),
     customer_email |-> PyStr(<<"t","e","s","t","@","e","x","a","m","p","l","e",".","c","o","m">>),
     quantity |-> PyInt(2),
     unit_price |-> PyFloat(1999),
     is_gift |-> PyBool(FALSE),
     status |-> PyStr(<<"pending">>),
     created_at |-> PyStr(<<"2025-01-10T09:15:00Z">>),
     shipping |-> PyDict([country_code |-> PyStr(<<"U", "S">>),
                          city |-> PyStr(<<"New York">>),
                          postal_code |-> PyStr(<<"1","0","0","0","1">>)]),
     tags |-> PyList(<<PyStr(<<"t","e","s","t">>)>>),
     referrer_url |-> PyStr(<<"https://example.com">>),
     coupon_code |-> PyStr(<<"TEST10">>),
     priority |-> PyInt(3)]

\* the values given for quantity and unit_price, and for is_gift and priority
QuantityInputs ==
    { PyInt(-1), PyInt(0), PyInt(1), PyInt(2),
      PyStr(<<"-","1">>), PyStr(<<"0">>), PyStr(<<"2">>), PyStr(<<" ","3"," ">>),
      PyStr(<<"n","/","a">>), PyStr(<<"N","/","A">>), PyStr(<<"n","o","n","e">>), PyStr(<<>>),
      PyStr(<<"a","b","c">>), PyStr(<<"2",".","5">>), PyFloat(200), PyFloat(250),
      PyBool(TRUE), PyBool(FALSE), PyNone }
PriceInputs ==
    { PyFloat(1999), PyFloat(0), PyFloat(-1000), PyFloat(6000000),
      PyStr(<<"1","0",".","5">>), PyStr(<<"f","r","e","e">>), PyInt(10) }
GiftInputs ==
    { Absent, PyBool(TRUE), PyBool(FALSE), PyStr(<<"y","e","s">>),
      PyStr(<<"Y","E","S">>), PyStr(<<"T","r","u","e">>), PyStr(<<"1">>), PyStr(<<"y">>),
      PyStr(<<"n","o">>), PyStr(<<"F","a","l","s","e">>), PyStr(<<"0">>), PyStr(<<"N">>),
      PyStr(<<"m","a","y","b","e">>), PyStr(<<" ","y","e","s">>), PyInt(0), PyInt(2),
      PyNone, PyFloat(100) }
PriorityInputs ==
    { PyInt(0), PyInt(1), PyInt(3), PyInt(5),
      PyInt(6), PyStr(<<"l","o","w">>), PyStr(<<"M","e","d","i","u","m">>), PyStr(<<"H","I","G","H">>),
      PyStr(<<"u","r","g","e","n","t">>), PyStr(<<"3">>), PyStr(<<"7">>), PyStr(<<"a","s","a","p">>),
      PyStr(<<>>), PyNone, PyFloat(300), PyBool(TRUE) }

\* sample_order_data with another value for one of the other fields
OtherInputs ==
    { [sample_order_data EXCEPT !.customer_email = PyStr(<<"n","o","t","-","a","n","-","e","m","a","i","l">>)],
      [sample_order_data EXCEPT !.customer_email = PyStr(<<"T","e","s","t","@","E","x","a","m","p","l","e",".","C","O","M">>)],
      [sample_order_data EXCEPT !.customer_email = PyStr(sAnonymized)],
      [sample_order_data EXCEPT !.order_id = PyStr(<<"I","N","V","A","L","I","D">>)],
      [sample_order_data EXCEPT !.order_id = PyStr(<<"o","r","d","-","0","0","0","1">>)],
      [sample_order_data EXCEPT !.status = PyStr(<<"unknown">>)],
      [sample_order_data EXCEPT !.status = StatusMember("paid")],
      [sample_order_data EXCEPT !.created_at = PyStr(<<"invalid-date">>)],
      [sample_order_data EXCEPT !.shipping = PyDict([country_code |-> PyStr(<<"u", "s">>), city |-> PyStr(sBonn),
                                 postal_code |-> PyInt(10001)])],
      [sample_order_data EXCEPT !.shipping = PyDict([country_code |-> PyStr(<<"X", "X">>), city |-> PyStr(sBonn)])],
      [sample_order_data EXCEPT !.shipping = PyDict([country_code |-> PyStr(sDE), city |-> PyStr(sBonn),
                                 postal_code |-> PyStr(<<" ", " ">>)])],
      [sample_order_data EXCEPT !.shipping = PyNone],
      [sample_order_data EXCEPT !.tags = Absent],
      [sample_order_data EXCEPT !.tags = PyNone],
      [sample_order_data EXCEPT !.tags = PyStr(<<"n","e","w",","," ","p","r","o","m","o",",">>)],
      [sample_order_data EXCEPT !.tags = PyList(<<PyInt(1)>>)],
      [sample_order_data EXCEPT !.coupon_code = PyNone],
      [sample_order_data EXCEPT !.referrer_url = Absent] }

\* the records an Order is created from
OrderInputs ==
    { RecordOf([sample_order_data EXCEPT !.quantity = q, !.unit_price = u]) :
        q \in QuantityInputs, u \in PriceInputs }
    \cup { RecordOf([sample_order_data EXCEPT !.is_gift = g, !.priority = p]) :
             g \in GiftInputs, p \in PriorityInputs }
    \cup { RecordOf(choice) : choice \in OtherInputs }

\* the record of a call op with the arguments call, which raised or returned
CallRecord(call, outcome) ==
    IF outcome.raised
    THEN call @@ [raised |-> TRUE, errors |-> outcome.errors]
    ELSE call @@ [raised |-> FALSE, result |-> outcome.value]

\* Order(**data)
CreateOrder(data) ==
    /\ ret = Idle
    /\ ret' = CallRecord([op |-> "Order", data |-> data], NewOrder(data))
    /\ UNCHANGED <<cls_instance, heap, disk, lastIndexed, buildFailed>>

AnonymizeRecord(self, call) ==
    CallRecord([op |-> "anonymize_pii", self |-> self, self_after |-> call.self], call.result)

\* order.anonymize_pii() on the order just created
AnonymizePii ==
    /\ ret.op = "Order" /\ ~ret.raised
    /\ ret' = AnonymizeRecord(ret.result, anonymize_pii(ret.result))
    /\ UNCHANGED <<cls_instance, heap, disk, lastIndexed, buildFailed>>

NextOrder ==
    \/ \E data \in OrderInputs : CreateOrder(data)
    \/ AnonymizePii
    \/ Return

SpecOrder == Init /\ [][NextOrder]_vars

-----------------------------------------------------------------------------
(* A rebuild and queries that run at the same time: index_folder step by step *)

\* One index_folder call runs beside the queries of a reader.  The reader is the
\* manager that rebuilds (another thread of the process) or the manager of another
\* process on the same persist directory.  ret holds the position of both:
\* build.pc is the line index_folder has reached, reader.pc that of query.

RaceDir == "data/vectorstore"

RaceFolders == {"data/raw", "data/new", "data/empty"}

RaceTexts == {sORD0003, <<"l","a","t","e"," ","o","r","d","e","r","s">>}

\* self.vector_store of a manager that has or has not opened the index yet
RaceManager(store) ==
    [persist_directory |-> RaceDir, embeddings |-> "all-MiniLM-L6-v2",
     vector_store |-> store, initialized |-> TRUE]

InitRace ==
    /\ cls_instance = 1
    /\ disk \in { dsk \in InitDisks : dsk[RaceDir].exists }
    /\ heap \in { hp \in UNION {[1..n -> {RaceManager(NoStore),
                                         RaceManager(Handle(RaceDir, FALSE))}] : n \in 1..2} :
                    \A a \in 1..Len(hp) :
                        hp[a].vector_store # NoStore => disk[RaceDir].files }
    /\ lastIndexed = [set |-> FALSE]
    /\ buildFailed = FALSE
    /\ ret = [op |-> "race", build |-> [pc |-> "start"], reader |-> [pc |-> "idle"]]

\* shutil.rmtree that removes nothing
RemovedNever(dsk, d) == dsk

\* shutil.rmtree(self.persist_directory) (line 131)
Removed(dsk, d) == [dsk EXCEPT ![d] = [exists |-> FALSE, files |-> FALSE, docs |-> <<>>]]

\* lines 113-126: the documents are collected; without documents the call returns
RaceCollect(folder_path) ==
    /\ ret.build.pc = "start"
    /\ ret' = [ret EXCEPT !.build =
                 [pc |-> IF AllDocuments(folder_path) = <<>> THEN "done" ELSE "collected",
                  folder_path |-> folder_path,
                  all_documents |-> AllDocuments(folder_path),
                  before_docs |-> disk[RaceDir].docs,
                  raised |-> FALSE]]
    /\ UNCHANGED <<cls_instance, heap, disk, lastIndexed, buildFailed>>

\* lines 129-131: the persist directory is deleted, under every handle open on it
RaceRmtree ==
    /\ ret.build.pc = "collected"
    /\ disk' = IF disk[RaceDir].exists THEN Removed(disk, RaceDir) ELSE disk
    /\ heap' = IF disk[RaceDir].exists THEN Staled(heap, RaceDir, disk[RaceDir].docs)
               ELSE heap
    /\ ret' = [ret EXCEPT !.build.pc = IF disk[RaceDir].exists THEN "removed" ELSE "made"]
    /\ UNCHANGED <<cls_instance, lastIndexed, buildFailed>>

\* line 132: os.makedirs(self.persist_directory)
RaceMakedirs ==
    /\ ret.build.pc = "removed"
    /\ disk' = [disk EXCEPT ![RaceDir].exists = TRUE]
    /\ ret' = [ret EXCEPT !.build.pc = "made"]
    /\ UNCHANGED <<cls_instance, heap, lastIndexed, buildFailed>>

\* lines 135-139: Chroma.from_documents has written the new index
RaceFromDocuments ==
    /\ ret.build.pc = "made"
    /\ disk' = Persisted(disk, RaceDir, ret.build.all_documents)
    /\ ret' = [ret EXCEPT !.build.pc = "written"]
    /\ UNCHANGED <<cls_instance, heap, lastIndexed, buildFailed>>

\* lines 135-139: Chroma.from_documents raises; index_folder raises
RaceFromDocumentsFails ==
    /\ ret.build.pc = "made"
    /\ \E created \in BOOLEAN :
          disk' = [disk EXCEPT ![RaceDir].exists = @ \/ created, ![RaceDir].files = created]
    /\ buildFailed' = TRUE
    /\ ret' = [ret EXCEPT !.build.pc = "done", !.build.raised = TRUE]
    /\ UNCHANGED <<cls_instance, heap, lastIndexed>>

\* line 135: the assignment to self.vector_store of the manager that rebuilt
RaceAssign ==
    /\ ret.build.pc = "written"
    /\ heap' = [heap EXCEPT ![1].vector_store = Handle(RaceDir, FALSE)]
    /\ lastIndexed' = [set |-> TRUE, docs |-> ret.build.all_documents]
    /\ ret' = [ret EXCEPT !.build.pc = "done"]
    /\ UNCHANGED <<cls_instance, disk, buildFailed>>

\* line 157 of query(text, k) on manager self: get_vector_store; window records that
\* the rebuild stood between the deletion and the writing of the index
RaceGetStore(self, text, k) ==
    /\ ret.reader.pc = "idle"
    /\ heap' = [heap EXCEPT ![self].vector_store = LoadedStore(self)]
    /\ ret' = [ret EXCEPT !.reader =
                 [pc |-> "got", self |-> self, text |-> text, k |-> k,
                  before |-> heap[self].vector_store, store |-> LoadedStore(self),
                  window |-> ret.build.pc \in {"removed", "made"}]]
    /\ UNCHANGED <<cls_instance, disk, lastIndexed, buildFailed>>

\* the outcome of lines 158-214 for the store of the reader
RaceOutcomes(reader) ==
    IF reader.store = NoStore
    THEN {[searched |-> FALSE, raised |-> FALSE, result |-> <<>>]}
    ELSE (IF reader.store.stale THEN {[searched |-> TRUE, raised |-> TRUE]} ELSE {})
         \cup
         UNION { { [searched |-> TRUE, raised |-> FALSE, docs |-> docs,
                    result |-> QueryResult(docs, reader.text, reader.k, results, FALSE)] :
                     results \in SemanticAnswers(docs, reader.k) } :
                 docs \in (IF reader.store.stale
                           THEN {disk[reader.store.dir].docs, reader.store.seen}
                           ELSE {disk[reader.store.dir].docs}) }

\* lines 158-214 of query: the search on the store that line 157 returned
RaceSearch ==
    /\ ret.reader.pc = "got"
    /\ \E outcome \in RaceOutcomes(ret.reader) :
          ret' = [ret EXCEPT !.reader = [ret.reader EXCEPT !.pc = "returned"] @@ outcome]
    /\ UNCHANGED <<cls_instance, heap, disk, lastIndexed, buildFailed>>

\* the caller of query takes the result
RaceReturn ==
    /\ ret.reader.pc = "returned"
    /\ ret' = [ret EXCEPT !.reader = [pc |-> "idle"]]
    /\ UNCHANGED <<cls_instance, heap, disk, lastIndexed, buildFailed>>

NextRace ==
    \/ \E f \in RaceFolders : RaceCollect(f)
    \/ RaceRmtree
    \/ RaceMakedirs
    \/ RaceFromDocuments
    \/ RaceFromDocumentsFails
    \/ RaceAssign
    \/ \E self \in 1..Len(heap), text \in RaceTexts, k \in 1..MaxK :
          RaceGetStore(self, text, k)
    \/ RaceSearch
    \/ RaceReturn

SpecRace == InitRace /\ [][NextRace]_vars

-----------------------------------------------------------------------------
(* GDPRDataMasker: src/src/privacy/gdpr_masking.py *)

\* In this specification heap holds the masker at address 1 and Python dicts at the
\* other addresses; a dict refers to a nested dict by its address, so that two
\* dicts can hold the same nested dict.

MaxCalls == 2       \* mask_order is called at most MaxCalls times

PyRef(addr) == [t |-> "ref", addr |-> addr]

\* "*" * n
Stars(n) == [i \in 1..n |-> "*"]

\* what a masking method returned, and what it appended to masking_log
Masked(value, log) == [raised |-> FALSE, value |-> value, log |-> log]

\* mask_email (lines 36-59)
mask_email(config, email) ==
    IF ~config.mask_emails \/ ~Truthy(email) THEN Masked(email, <<>>)
    ELSE IF email.t # "str" \/ Cardinality({i \in 1..Len(email.s) : email.s[i] = "@"}) # 1
         THEN Masked(PyStr(<<"*","*","*","@","*","*","*",".","c","o","m">>), <<>>)
    ELSE LET a == CHOOSE i \in 1..Len(email.s) : email.s[i] = "@"
         IN  Masked(PyStr((IF a - 1 > 2 THEN <<email.s[1]>> \o Stars(a - 2)
                                        ELSE Stars(a - 1))
                          \o SubSeq(email.s, a, Len(email.s))),
                    <<"email">>)

\* len(address.split())
WordCount(s) ==
    Cardinality({i \in 1..Len(s) :
                    s[i] \notin Whitespace /\ (i = 1 \/ s[i - 1] \in Whitespace)})

\* mask_address (lines 61-77); a value without split() raises
mask_address(config, address) ==
    IF ~config.mask_addresses \/ ~Truthy(address) THEN Masked(address, <<>>)
    ELSE IF address.t # "str" THEN Raised
    ELSE Masked(PyStr(Join(<<" ">>, [i \in 1..WordCount(address.s) |-> Stars(3)])),
                <<"address">>)

\* mask_postal_code (lines 79-99); a number has no len() and raises
mask_postal_code(config, postal_code) ==
    IF ~config.mask_postal_codes \/ ~Truthy(postal_code) THEN Masked(postal_code, <<>>)
    ELSE IF postal_code.t # "str" THEN Raised
    ELSE IF Len(postal_code.s) <= 3 THEN Masked(PyStr(Stars(3)), <<>>)
    ELSE Masked(PyStr(SubSeq(postal_code.s, 1, 3) \o Stars(Len(postal_code.s) - 3)),
                <<"postal_code">>)

\* the dict shipping after line 132, for what mask_address did
ShippingAfterStreet(shipping, street) ==
    IF street.raised THEN [raised |-> TRUE, dict |-> shipping, log |-> <<>>]
    ELSE [raised |-> FALSE, log |-> street.log,
          dict |-> PyDict([shipping.items EXCEPT !["street"] = street.value])]

\* the dict shipping after line 135, for what mask_postal_code did
ShippingAfterPostal(after, postal) ==
    IF postal.raised THEN [after EXCEPT !.raised = TRUE]
    ELSE [raised |-> FALSE, log |-> after.log \o postal.log,
          dict |-> PyDict([after.dict.items EXCEPT !["postal_code"] = postal.value])]

\* lines 134-135
MaskedPostal(config, after) ==
    IF after.raised \/ "postal_code" \notin DOMAIN after.dict.items THEN after
    ELSE ShippingAfterPostal(after,
                             mask_postal_code(config, after.dict.items["postal_code"]))

\* lines 131-135: the assignments to the dict shipping
MaskedShipping(config, shipping) ==
    MaskedPostal(config,
                 IF "street" \in DOMAIN shipping.items
                 THEN ShippingAfterStreet(shipping,
                                          mask_address(config, shipping.items["street"]))
                 ELSE [raised |-> FALSE, dict |-> shipping, log |-> <<>>])

\* lines 121-125: masked_order = order_data.copy() with the email masked; the copy
\* holds the values of order_data, a nested dict as the same object
CopyWithEmail(order, email) ==
    [dict |-> PyDict(IF "customer_email" \in DOMAIN order.items
                     THEN [order.items EXCEPT !["customer_email"] = email.value]
                     ELSE order.items),
     log |-> IF "customer_email" \in DOMAIN order.items THEN email.log ELSE <<>>]

\* lines 128-144 for the copy of lines 121-125: the heap after the call and its
\* outcome; sh is what lines 131-135 made of the dict at address at
Finished(hp, copy, at, sh, now) ==
    [heap |-> [a \in 1..(Len(hp) + (IF sh.raised THEN 0 ELSE 1)) |->
                  IF a = 1
                  THEN [hp[1] EXCEPT !.masking_log = @ \o copy.log \o sh.log]
                  ELSE IF a = at THEN sh.dict
                  ELSE IF a <= Len(hp) THEN hp[a]
                  ELSE PyDict(("_gdpr_masked" :> PyBool(TRUE))
                              @@ ("_masked_at" :> PyStr(<<now>>))
                              @@ copy.dict.items)],
     raised |-> sh.raised,
     result |-> Len(hp) + 1]

\* lines 128-144: the shipping of the copy is masked when it is a dict
WithShipping(hp, copy, now) ==
    IF "shipping" \in DOMAIN copy.dict.items /\ copy.dict.items["shipping"].t = "ref"
    THEN Finished(hp, copy, copy.dict.items["shipping"].addr,
                  MaskedShipping(hp[1].config, hp[copy.dict.items["shipping"].addr]), now)
    ELSE Finished(hp, copy, 0, [raised |-> FALSE, log |-> <<>>], now)

\* mask_order(order_data) at time now (lines 115-144)
mask_order(hp, order_data, now) ==
    WithShipping(hp,
                 CopyWithEmail(hp[order_data],
                               mask_email(hp[1].config,
                                          DictGet(hp[order_data], "customer_email", PyNone))),
                 now)

\* the dicts that are no nested dict of another one: the orders
OrderDicts(hp) ==
    {a \in 2..Len(hp) :
        \A b \in 2..Len(hp) : \A key \in DOMAIN hp[b].items : hp[b].items[key] # PyRef(a)}

\* the values of the inputs
sJohn == <<"j","o","h","n","@","x",".","c","o","m">>
sMainStreet == <<"1","2"," ","M","a","i","n"," ","S","t">>
sPostal == <<"1","0","1","1","5">>

MaskEmails == {Absent, PyNone, PyStr(sJohn), PyStr(<<"a","b","@","x",".","i","o">>),
               PyStr(<<"n","o","a","t">>)}
MaskStreets == {Absent, PyStr(<<>>), PyStr(sMainStreet)}
MaskPostals == {Absent, PyStr(sPostal), PyStr(<<"1","0","1">>), PyInt(10115)}
MaskTimes == {"2026-01-01T00:00:00", "2026-01-01T00:00:01"}

\* a dict with the keys whose value is given
DictOf(items) == PyDict([key \in {k \in DOMAIN items : items[k] # Absent} |-> items[key]])

\* the heaps at the start: a masker and one order, with or without a shipping dict
MaskHeaps ==
    LET maskers == { [config |-> c, masking_log |-> <<>>] :
                       c \in [mask_emails : BOOLEAN, mask_addresses : BOOLEAN,
                              mask_postal_codes : BOOLEAN] }
    IN  { <<m, DictOf([order_id |-> PyStr(sORD0001), customer_email |-> e, shipping |-> sh])>> :
            m \in maskers, e \in MaskEmails, sh \in {Absent, PyStr(<<"Bonn">>)} }
        \cup
        { <<m, DictOf([order_id |-> PyStr(sORD0001), customer_email |-> e,
                       shipping |-> PyRef(3)]),
               DictOf([street |-> st, postal_code |-> pc, city |-> PyStr(<<"Bonn">>)])>> :
            m \in maskers, e \in MaskEmails, st \in MaskStreets, pc \in MaskPostals }

InitMask ==
    /\ cls_instance = 0
    /\ heap \in MaskHeaps
    /\ disk = [d \in Dirs |-> [exists |-> FALSE, files |-> FALSE, docs |-> <<>>]]
    /\ lastIndexed = [set |-> FALSE]
    /\ buildFailed = FALSE
    /\ ret = [op |-> "start", calls |-> 0]

\* the record of the call for its outcome
MaskCall(order_data, before, calls, outcome) ==
    IF outcome.raised
    THEN [op |-> "mask_order", order_data |-> order_data, before |-> before,
          calls |-> calls, raised |-> TRUE]
    ELSE [op |-> "mask_order", order_data |-> order_data, before |-> before,
          calls |-> calls, raised |-> FALSE, result |-> outcome.result]

\* masker.mask_order(order_data) on a dict of the heap
MaskOrder(order_data, now) ==
    /\ ret.calls < MaxCalls
    /\ heap' = mask_order(heap, order_data, now).heap
    /\ ret' = MaskCall(order_data, heap, ret.calls + 1, mask_order(heap, order_data, now))
    /\ UNCHANGED <<cls_instance, disk, lastIndexed, buildFailed>>

NextMask == \E order_data \in OrderDicts(heap), now \in MaskTimes : MaskOrder(order_data, now)

SpecMask == InitMask /\ [][NextMask]_vars

-----------------------------------------------------------------------------
(* validate_orders: src/src/api/routes/validation.py *)

MaxRun == 6         \* an uploaded content repeats a line at most MaxRun times

\* the number of errors returned (line 62)
ErrorsReturned == 10

RECURSIVE StripHead(_)
\* strip() at the start of the content: the blank lines before the first other line
StripHead(lines) ==
    IF lines = <<>> \/ Head(lines).kind # "blank" THEN lines ELSE StripHead(Tail(lines))

RECURSIVE StripEnd(_)
\* strip() at the end of the content: the blank lines after the last other line
StripEnd(lines) ==
    IF lines = <<>> \/ lines[Len(lines)].kind # "blank" THEN lines
    ELSE StripEnd(SubSeq(lines, 1, Len(lines) - 1))

\* "".split("\n") is [""]: a content of blank lines only gives one empty line
SplitOf(stripped) == IF stripped = <<>> THEN <<BlankLine>> ELSE stripped

\* content.decode("utf-8").strip().split("\n") (line 41) on a content given as its
\* lines
SplitLines(content) == SplitOf(StripEnd(StripHead(content)))

\* the end of the try for a line that json.loads gave a dict for (lines 50-56)
OrderVerdict(outcome) ==
    IF outcome.raised
    THEN [kind |-> "invalid", error |-> [type |-> "ValidationError", errors |-> outcome.errors]]
    ELSE [kind |-> "valid"]

\* the try of one line (lines 48-56): json.loads raises JSONDecodeError on a line
\* that is empty or not JSON; Order(**data) raises TypeError, which no except
\* clause names, when data is not a mapping, and ValidationError when the model
\* refuses the record
LineVerdict(line) ==
    IF line.kind # "json"
    THEN [kind |-> "invalid", error |-> [type |-> "JSONDecodeError"]]
    ELSE IF line.value.t # "dict" THEN [kind |-> "raises", error |-> "TypeError"]
    ELSE OrderVerdict(NewOrder(line.value))

\* the counters and the error list after a line (lines 51, 54-55); every line of
\* the contents checked is shorter than 100 characters, so line[:100] is the line
Counted(acc, idx, line, verdict) ==
    IF verdict.kind = "valid"
    THEN [acc EXCEPT !.valid_count = @ + 1]
    ELSE [acc EXCEPT !.invalid_count = @ + 1,
                     !.errors = Append(@, [line |-> idx, error |-> verdict.error,
                                           data |-> line])]

RECURSIVE ValidateLines(_, _, _)
RECURSIVE ValidateLine(_, _, _, _)
\* the loop over the lines (lines 47-56)
ValidateLines(lines, idx, acc) ==
    IF idx > Len(lines) THEN [raised |-> FALSE, acc |-> acc]
    ELSE ValidateLine(lines, idx, acc, LineVerdict(lines[idx]))

ValidateLine(lines, idx, acc, verdict) ==
    IF verdict.kind = "raises"
    THEN [raised |-> TRUE, error |-> verdict.error, line |-> idx]
    ELSE ValidateLines(lines, idx + 1, Counted(acc, idx, lines[idx], verdict))

\* ValidationResult(...) (lines 58-63), if the loop came to its end
ValidationResult(lines, looped) ==
    IF looped.raised THEN looped
    ELSE [raised |-> FALSE,
          value |-> [total |-> Len(lines),
                     valid |-> looped.acc.valid_count,
                     invalid |-> looped.acc.invalid_count,
                     errors |-> Take(looped.acc.errors, ErrorsReturned)]]

\* lines 43-67 on the lines of the content
ValidatedLines(lines) ==
    ValidationResult(lines,
        ValidateLines(lines, 1, [valid_count |-> 0, invalid_count |-> 0, errors |-> <<>>]))

\* validate_orders(file) (lines 27-67) on the name and the content of the upload
validate_orders(filename, content) ==
    IF ~EndsWithNdjson(filename)
    THEN [raised |-> TRUE, error |-> "HTTPException", status_code |-> 400]
    ELSE ValidatedLines(SplitLines(content))

\* the lines of the uploads: blank, not JSON, JSON that is no object (a number, a
\* list), an empty object, a record the model refuses and one it accepts
UploadLines ==
    { BlankLine,
      InvalidLine,
      JsonLine(PyInt(7)),
      JsonLine(PyList(<<>>)),
      JsonLine(EmptyDict),
      JsonLine(RecordOf([sample_order_data EXCEPT !.order_id = PyStr(<<"I","N","V","A","L","I","D">>)])),
      JsonLine(RecordOf(sample_order_data)) }

Repeat(line, n) == [i \in 1..n |-> line]

\* the uploaded contents: a run of one line, at most one other line, a run of one line
UploadContents ==
    { Repeat(a, i) \o mid \o Repeat(b, j) :
        a \in {InvalidLine, JsonLine(EmptyDict), JsonLine(RecordOf(sample_order_data))},
        i \in 0..MaxRun,
        mid \in {<<>>} \cup {<<line>> : line \in UploadLines},
        b \in {BlankLine, InvalidLine, JsonLine(RecordOf(sample_order_data))},
        j \in 0..MaxRun }

UploadNames == { <<"orders", ".ndjson">>, <<"orders", ".json">> }

\* POST /validate with a file
ValidateOrders(filename, content) ==
    /\ ret = Idle
    /\ ret' = [op |-> "validate_orders", filename |-> filename, content |-> content,
               outcome |-> validate_orders(filename, content)]
    /\ UNCHANGED <<cls_instance, heap, disk, lastIndexed, buildFailed>>

NextValidate ==
    \/ \E filename \in UploadNames, content \in UploadContents :
           ValidateOrders(filename, content)
    \/ Return

SpecValidate == Init /\ [][NextValidate]_vars

-----------------------------------------------------------------------------
(* Properties of query *)

\* a query call that returned a list after searching a store
Answered == ret.op = "query" /\ ~ret.raised /\ ret.searched

\* the order IDs a text contains: every match of ORD-dddd, at any position
IdsIn(text) == {SubSeq(text, i, i + 7) : i \in {a \in 1..Len(text) : IdMatchAt(text, a)}}

\* document doc carries the order ID id, ignoring letter case
CarriesId(doc, id) ==
    LET doc_id == DictGet(doc.metadata, "order_id", PyNone)
    IN  doc_id.t = "str" /\ doc_id.s # <<>> /\ Upper(doc_id.s) = Upper(id)

\* document doc carries the email mail, ignoring letter case
CarriesEmail(doc, mail) ==
    LET doc_email == DictGet(doc.metadata, "customer_email", PyNone)
    IN  doc_email.t = "str" /\ doc_email.s # <<>> /\ Lower(doc_email.s) = Lower(mail)

\* the full scan of the call ran to its end
ScanCompleted == ret.scanned /\ ~ret.get_fails /\ ~ret.scan_raised

OrderIdOf(entry) == DictGet(ret.docs[entry.at].metadata, "order_id", PyNone)

\* C2 as stated: no two entries of one query result come from documents with the
\* same order ID.
C2_NoTwoEntriesShareOrderId ==
    Answered =>
        \A i, j \in 1..Len(ret.result) :
            i < j => OrderIdOf(ret.result[i]) # OrderIdOf(ret.result[j])

\* C3: the list query returns has at most k entries, for every k >= 0.
C3_ResultCap ==
    ret.op = "query" /\ ~ret.raised => Len(ret.result) <= ret.k

\* C3 witness: the exact-match pass alone found more than k documents
C3_Witness ==
    /\ Answered /\ ScanCompleted /\ ret.k >= 1
    /\ Len(ret.result) = ret.k
    /\ Cardinality({i \in 1..Len(ret.docs) :
                       IsExactMatch(ret.docs[i], IdSearch(ret.text), EmailSearch(ret.text))})
          > ret.k

\* the persist directory of the manager of the last call holds no index files
NothingPersisted ==
    LET d == heap[ret.self].persist_directory
    IN  ~(disk[d].exists /\ disk[d].files)

\* C4: a query on a manager with no cached store and a missing or empty persist
\* directory returns the empty list, does not raise, and calls neither the semantic
\* search nor the full scan.
C4_EmptyIndexSafety ==
    ret.op = "query" /\ ret.before = NoStore /\ NothingPersisted =>
        /\ ~ret.raised
        /\ ret.result = <<>>
        /\ ~ret.searched
        /\ ~ret.scanned

\* C4 witness: a targeted query with k >= 1 on a never-built index
C4_Witness ==
    /\ ret.op = "query" /\ ret.before = NoStore /\ NothingPersisted
    /\ ret.k >= 1 /\ Targeted(ret.text)
    /\ ret.result = <<>>

\* C5: as long as no index_folder call has failed, the persisted index holds exactly
\* the documents of the last index_folder call that found a document.
C5_RebuildReplaces ==
    lastIndexed.set /\ ~buildFailed =>
        \A a \in 1..Len(heap) : disk[heap[a].persist_directory].docs = lastIndexed.docs

\* C5 witness: data/new was indexed over an index of data/raw
C5_Witness ==
    /\ ret.op = "index_folder" /\ ~ret.raised /\ ~buildFailed
    /\ ret.before_docs = AllDocuments("data/raw")
    /\ ret.all_documents = AllDocuments("data/new")
    /\ disk[heap[ret.self].persist_directory].docs = AllDocuments("data/new")

\* the rank of the semantic result that an entry found by the vector pass came from
RankOf(entry) == CHOOSE p \in 1..Len(ret.results) : ret.results[p].at = entry.at

\* C6: in every result the entries of the exact-match scan precede the entries of the
\* semantic search, and the semantic entries keep the order the index returned them in.
C6_ExactBeforeSemantic ==
    Answered =>
        \A i, j \in 1..Len(ret.result) :
            i < j =>
                /\ ~(ret.result[i].via = "semantic" /\ ret.result[j].via = "exact")
                /\ ret.result[i].via = "semantic" /\ ret.result[j].via = "semantic"
                      => RankOf(ret.result[i]) < RankOf(ret.result[j])

\* C6 witness: one exact entry followed by two semantic entries
C6_Witness ==
    /\ Answered /\ Len(ret.result) = 3
    /\ ret.result[1].via = "exact"
    /\ ret.result[2].via = "semantic"
    /\ ret.result[3].via = "semantic"

\* C7: get_vector_store returns the cached handle when there is one; otherwise it
\* opens, caches and returns the persisted index when the persist directory exists
\* and is non-empty; otherwise it returns None and vector_store stays None.
C7_GetOrLoad ==
    ret.op = "get_vector_store" =>
        LET d == heap[ret.self].persist_directory IN
        /\ heap[ret.self].vector_store = ret.result
        /\ ret.before # NoStore => ret.result = ret.before
        /\ ret.before = NoStore /\ disk[d].exists /\ disk[d].files
              => ret.result = Handle(d, FALSE)
        /\ ret.before = NoStore /\ ~(disk[d].exists /\ disk[d].files)
              => ret.result = NoStore

\* C7 witness: the persisted index was opened and cached
C7_Witness ==
    /\ ret.op = "get_vector_store"
    /\ ret.before = NoStore
    /\ ret.result = Handle(heap[ret.self].persist_directory, FALSE)
    /\ heap[ret.self].vector_store = ret.result

\* C8: every construction returns the one instance, so there is one vector_store
\* for all callers.
C8_Singleton ==
    /\ Len(heap) <= 1
    /\ cls_instance = Len(heap)
    /\ ret.op = "RAGManager" => ret.result = 1
    /\ \A a, b \in 1..Len(heap) : heap[a].vector_store = heap[b].vector_store

\* C8 witness: a later construction, with another directory, returned the instance
\* that holds the built store
C8_Witness ==
    /\ ret.op = "RAGManager"
    /\ ret.result = 1
    /\ heap[1].vector_store # NoStore
    /\ ret.persist_directory # heap[1].persist_directory

\* C13 as stated: every returned entry has a score in [0.0, 1.0]; its score is 1.0 if
\* and only if the exact-match scan produced it; an entry of the semantic search has
\* a score below 1.0 and the source file path of its document as document_id.
C13_ScoreTellsOrigin ==
    Answered =>
        \A i \in 1..Len(ret.result) :
            LET entry == ret.result[i] IN
            /\ entry.score >= 0 /\ entry.score <= 10
            /\ entry.score = 10 <=> entry.via = "exact"
            /\ entry.via = "semantic" =>
                  /\ entry.score < 10
                  /\ entry.document_id = ret.docs[entry.at].metadata.items.source

\* the folders without a document: missing, without an .ndjson file, or with
\* .ndjson files that yield nothing
NoDocumentFolders == {"data/missing", "data/empty", "data/void"}

\* C12: index_folder on a folder that is missing, holds no .ndjson file or yields no
\* document returns without raising and changes neither a persist directory nor the
\* vector_store of a manager.
C12_NoDocumentsNoChange ==
    [][ret.op = "idle" /\ ret'.op = "index_folder"
          /\ ret'.folder_path \in NoDocumentFolders
       => ~ret'.raised /\ heap' = heap /\ disk' = disk]_vars

\* C12 witness: index_folder on data/void returned on a manager that holds a store
\* over an index of data/raw, which is still there
C12_Witness ==
    /\ ret.op = "index_folder" /\ ret.folder_path = "data/void" /\ ~ret.raised
    /\ ret.all_documents = <<>>
    /\ heap[ret.self].vector_store = Handle(heap[ret.self].persist_directory, FALSE)
    /\ disk[heap[ret.self].persist_directory].docs = AllDocuments("data/raw")
    /\ disk[heap[ret.self].persist_directory].files

\* C18 as stated: when an index_folder call that found documents fails in the
\* backend, the call raises, the persist directory holds no document of a partial
\* index, and the get_vector_store call that follows on that manager returns None,
\* also when the manager held a store before.
C18_FailedBuildLeavesNotFound ==
    ret.op = "index_folder" /\ ret.all_documents # <<>> /\ ret.raised =>
        /\ disk[heap[ret.self].persist_directory].docs = <<>>
        /\ LoadedStore(ret.self) = NoStore

\* what the exact-match pass of the last query left: its entries and found_ids
ExactPass ==
    IF ret.scanned /\ ~ret.get_fails
    THEN Scan(ret.docs, 1, IdSearch(ret.text), EmailSearch(ret.text),
              [sources |-> <<>>, found_ids |-> {}, raised |-> FALSE])
    ELSE [sources |-> <<>>, found_ids |-> {}, raised |-> FALSE]

\* the order_id of the document of semantic result j
ResultId(j) == DictGet(ret.docs[ret.results[j].at].metadata, "order_id", PyNone)

RECURSIVE EntriesOf(_, _)
\* the entries of the semantic results at the positions keep, from result j on
EntriesOf(keep, j) ==
    IF j > Len(ret.results) THEN <<>>
    ELSE (IF j \in keep
          THEN <<Entry(ret.docs[ret.results[j].at], ret.results[j].score, "semantic",
                       ret.results[j].at)>>
          ELSE <<>>)
         \o EntriesOf(keep, j + 1)

\* C19 as stated: when the full scan of a targeted query fails, in the enumeration or
\* at some document after earlier documents matched, the query returns the semantic
\* results alone, de-duplicated and cut to k: no entry comes from the scan.
C19_ScanFailureSemanticOnly ==
    Answered /\ ret.scanned /\ (ret.get_fails \/ ret.scan_raised) =>
        /\ \A i \in 1..Len(ret.result) : ret.result[i].via = "semantic"
        /\ ret.result
              = Take(EntriesOf({j \in 1..Len(ret.results) :
                                   \A i \in 1..(j - 1) : ResultId(i) # ResultId(j)}, 1),
                     ret.k)

\* C20 as stated: the result is the entries of the exact-match pass followed by the
\* semantic results, in their order, whose order ID the exact-match pass did not
\* record, cut to k.
C20_DroppedOnlyForExactMatch ==
    Answered =>
        ret.result
            = Take(ExactPass.sources
                   \o EntriesOf({j \in 1..Len(ret.results) :
                                    ResultId(j) \notin ExactPass.found_ids}, 1),
                   ret.k)

\* C20 amended: the result is the entries of the exact-match pass followed by the
\* semantic results, in their order, whose order_id neither is among the keys the
\* exact-match pass recorded nor is the order_id of an earlier semantic result of
\* the call, cut to k.
C20_DroppedForRecordedId ==
    Answered =>
        ret.result
            = Take(ExactPass.sources
                   \o EntriesOf({j \in 1..Len(ret.results) :
                                    /\ ResultId(j) \notin ExactPass.found_ids
                                    /\ \A i \in 1..(j - 1) : ResultId(i) # ResultId(j)}, 1),
                   ret.k)

\* C20 witness: a query without ID or email got three semantic results, two of them
\* for documents with the same order ID, and returned two entries
C20_Witness ==
    /\ Answered /\ ~ret.scanned /\ ret.k = 3
    /\ Len(ret.results) = 3
    /\ \E i, j \in 1..3 : i < j /\ ResultId(i) = ResultId(j)
    /\ Len(ret.result) = 2

\* the document carries no order ID: its order_id metadata is missing, None or empty
NoOrderId(doc) == ~Truthy(DictGet(doc.metadata, "order_id", PyNone))

\* the positions in the store of the documents the semantic search returned
SemanticHits == {ret.results[j].at : j \in 1..Len(ret.results)}

\* the positions in the store of the documents the result has an entry for
ResultHits == {ret.result[i].at : i \in 1..Len(ret.result)}

\* C21 as stated: two indexed documents without order ID metadata are never taken for
\* duplicates of each other: when the semantic search returns both, or the scan
\* matches both by email, and k leaves room for them, both are in the result.
C21_NoIdNeverDuplicates ==
    Answered =>
        \A p, q \in 1..Len(ret.docs) :
            p # q /\ NoOrderId(ret.docs[p]) /\ NoOrderId(ret.docs[q]) =>
                /\ /\ {p, q} \subseteq SemanticHits
                   /\ Len(ExactPass.sources) + Len(ret.results) <= ret.k
                   => {p, q} \subseteq ResultHits
                /\ /\ ScanCompleted /\ Truthy(EmailSearch(ret.text))
                   /\ CarriesEmail(ret.docs[p], EmailSearch(ret.text).s)
                   /\ CarriesEmail(ret.docs[q], EmailSearch(ret.text).s)
                   /\ Cardinality({i \in 1..Len(ret.docs) :
                                      CarriesEmail(ret.docs[i], EmailSearch(ret.text).s)})
                         <= ret.k
                   => {p, q} \subseteq ResultHits

\* the order IDs a text contains as ORD- followed by exactly four digits: a match of
\* ORD-dddd that no further digit follows
ExactIdsIn(text) ==
    {SubSeq(text, i, i + 7) :
        i \in {a \in 1..Len(text) :
                  /\ IdMatchAt(text, a)
                  /\ a + 8 <= Len(text) => text[a + 8] \notin Digits}}

\* C22 as stated: a query text without email whose ID-like tokens all have more or
\* fewer than four digits after ORD- is no targeted lookup: no scan runs and no
\* entry of the result comes from an exact match.
C22_ExactlyFourDigits ==
    Answered /\ ExactIdsIn(ret.text) = {} /\ ~Truthy(EmailSearch(ret.text)) =>
        /\ ~ret.scanned
        /\ \A i \in 1..Len(ret.result) : ret.result[i].via # "exact"

\* the text holds an order ID or an email, and no document of the store carries it
PatternWithoutMatch ==
    /\ Targeted(ret.text)
    /\ Truthy(IdSearch(ret.text)) =>
          \A i \in 1..Len(ret.docs) : ~CarriesId(ret.docs[i], IdSearch(ret.text).s)
    /\ Truthy(EmailSearch(ret.text)) =>
          \A i \in 1..Len(ret.docs) : ~CarriesEmail(ret.docs[i], EmailSearch(ret.text).s)

\* what the semantic results alone give: the first result for each order_id, cut to k
SemanticOnly ==
    Take(EntriesOf({j \in 1..Len(ret.results) :
                       \A i \in 1..(j - 1) : ResultId(i) # ResultId(j)}, 1),
         ret.k)

\* C23 as stated: when the text holds an order ID or email that no indexed document
\* carries, the result is what the semantic search alone gives, and every entry has
\* a score below 1.0.
C23_NoMatchPurelySemantic ==
    Answered /\ PatternWithoutMatch =>
        /\ ret.result = SemanticOnly
        /\ \A i \in 1..Len(ret.result) : ret.result[i].score < 10

\* the positions of the documents of the store that carry the ID or the email of the
\* text, ignoring letter case
ScanMatches ==
    {i \in 1..Len(ret.docs) :
        \/ /\ Truthy(IdSearch(ret.text))
           /\ CarriesId(ret.docs[i], IdSearch(ret.text).s)
        \/ /\ Truthy(EmailSearch(ret.text))
           /\ CarriesEmail(ret.docs[i], EmailSearch(ret.text).s)}

\* the matches with a distinct order ID: the first match for each order_id, and every
\* match without order ID
DistinctMatches ==
    {i \in ScanMatches :
        \/ NoOrderId(ret.docs[i])
        \/ \A j \in ScanMatches :
              j < i => DictGet(ret.docs[j].metadata, "order_id", PyNone)
                          # DictGet(ret.docs[i].metadata, "order_id", PyNone)}

\* the place of position i among the positions S, in scan order
RankIn(S, i) == Cardinality({j \in S : j <= i})

\* C24 as stated: in a targeted lookup whose enumeration of the store succeeds, the
\* scan visits every document; a document is an exact match iff it carries the ID or
\* the email of the text ignoring case; the matches with a distinct order ID are, in
\* scan order and up to the first k, the entries of score 1.0 that start the result.
C24_ScanVisitsEveryDocument ==
    Answered /\ ret.scanned /\ ~ret.get_fails =>
        /\ \A i \in DistinctMatches :
              RankIn(DistinctMatches, i) <= ret.k =>
                  /\ Len(ret.result) >= RankIn(DistinctMatches, i)
                  /\ ret.result[RankIn(DistinctMatches, i)].via = "exact"
                  /\ ret.result[RankIn(DistinctMatches, i)].at = i
                  /\ ret.result[RankIn(DistinctMatches, i)].score = 10
        /\ \A n \in 1..Len(ret.result) :
              ret.result[n].via = "exact" => ret.result[n].at \in DistinctMatches

\* C25: the vector_store of a manager is None after construction and stays None
\* until an index_folder call of that manager has built an index or a
\* get_vector_store of that manager (called directly or by query) has opened a
\* persisted index: no other step makes it non-None.
C25_NoneUntilBuildOrLoad ==
    [][\A a \in 1..Len(heap') :
          /\ a > Len(heap) \/ heap[a].vector_store = NoStore
          /\ heap'[a].vector_store # NoStore
          => \/ /\ ret'.op = "index_folder" /\ ret'.self = a
                /\ ~ret'.raised /\ ret'.all_documents # <<>>
             \/ /\ ret'.op \in {"get_vector_store", "query"} /\ ret'.self = a
                /\ disk[heap[a].persist_directory].exists
                /\ disk[heap[a].persist_directory].files]_vars

\* C25 witness: after a failed build and no successful one, a query found no index
\* and the vector_store is still None
C25_Witness ==
    /\ ret.op = "query" /\ ret.store = NoStore /\ ret.before = NoStore
    /\ buildFailed /\ ~lastIndexed.set
    /\ heap[ret.self].vector_store = NoStore

\* C26: nothing keeps a query from running inside a rebuild.  A query whose
\* get_vector_store ran between the deletion of the persist directory and the
\* writing of the new index observes no index: without a cached store it gets None
\* and returns the empty list without searching, with a cached store it searches a
\* handle whose directory was deleted.
C26_QueryInsideRebuildSeesNoIndex ==
    ret.op = "race" /\ ret.reader.pc = "returned" /\ ret.reader.window =>
        /\ ret.reader.before = NoStore =>
              /\ ret.reader.store = NoStore
              /\ ~ret.reader.searched /\ ~ret.reader.raised
              /\ ret.reader.result = <<>>
        /\ ret.reader.before # NoStore =>
              /\ ret.reader.store = ret.reader.before
              /\ ret.reader.store.stale

\* C26 witness: the interleaving of the claim: an index existed before the rebuild
\* and the new one exists after it, and a query started in between returned the
\* empty list
C26_Witness ==
    /\ ret.op = "race"
    /\ ret.build.pc = "done" /\ ~ret.build.raised
    /\ ret.build.before_docs # <<>>
    /\ ret.build.all_documents # <<>>
    /\ disk[RaceDir].files /\ disk[RaceDir].docs = ret.build.all_documents
    /\ ret.reader.pc = "returned" /\ ret.reader.window
    /\ ret.reader.before = NoStore
    /\ ret.reader.result = <<>>

\* the entry shows a document of the last successful build: its text and its source
FromLastBuild(entry) ==
    \E n \in 1..Len(lastIndexed.docs) :
        /\ entry.content = lastIndexed.docs[n].page_content
        /\ entry.document_id
              = DictGet(lastIndexed.docs[n].metadata, "source", PyStr(<<"unknown">>))

\* C27: no step of the process sets a vector_store that is not None back to None,
\* and once an index_folder call of the process has built an index, every entry a
\* later query returns shows a document of the last index built, also when an older
\* handle had been cached before.
C27_StoreStaysAndFollowsRebuild ==
    [][/\ \A a \in 1..Len(heap) :
             heap[a].vector_store # NoStore => heap'[a].vector_store # NoStore
       /\ ret'.op = "query" /\ ~ret'.raised /\ lastIndexed.set =>
             \A i \in 1..Len(ret'.result) : FromLastBuild(ret'.result[i])]_vars

\* C27 witness: the last index was built from data/new, and a query on the cached
\* store returned two or more entries, all of them documents of data/new
C27_Witness ==
    /\ Answered /\ ~buildFailed
    /\ lastIndexed.set /\ lastIndexed.docs = AllDocuments("data/new")
    /\ ret.before = Handle(heap[ret.self].persist_directory, FALSE)
    /\ Len(ret.result) >= 2
    /\ \A i \in 1..Len(ret.result) :
          ret.result[i].document_id \in {PyStr(<<"data/new/a.ndjson">>),
                                         PyStr(<<"data/new/sub/b.ndjson">>)}

\* C28: once the process has its instance, a construction with any directory
\* returns that instance and changes neither the instance nor the disk; the
\* instance keeps the persist_directory and the embeddings of its first
\* construction, and every later call works on that directory: no step changes
\* another directory, and the store it caches is a handle on that directory.
C28_FirstDirectoryStays ==
    [][Len(heap) >= 1 =>
          /\ heap'[1].persist_directory = heap[1].persist_directory
          /\ heap'[1].embeddings = heap[1].embeddings
          /\ ret'.op = "RAGManager" =>
                ret'.result = 1 /\ heap' = heap /\ disk' = disk
          /\ \A d \in Dirs \ {heap[1].persist_directory} : disk'[d] = disk[d]
          /\ heap'[1].vector_store # NoStore =>
                heap'[1].vector_store.dir = heap[1].persist_directory]_vars

\* C28 witness: a second construction, with a directory that is not the instance's,
\* returned the instance, which holds a store on its own directory; the directory
\* given was not even created
C28_Witness ==
    /\ ret.op = "RAGManager" /\ ret.result = 1
    /\ ret.persist_directory # heap[1].persist_directory
    /\ ~disk[ret.persist_directory].exists
    /\ heap[1].vector_store = Handle(heap[1].persist_directory, FALSE)
    /\ lastIndexed.set

-----------------------------------------------------------------------------
(* Properties of the document builder *)

\* the record has none of shipping, tags, coupon_code, is_gift
LacksOptional(data) ==
    DOMAIN data.items \cap {"shipping", "tags", "coupon_code", "is_gift"} = {}

Has(text, piece) == \E i \in 1..Len(text) : text[i] = piece

\* the line of text that starts with label, up to and with its "\n" (<<>> if none)
LineOf(text, label) ==
    IF Has(text, label)
    THEN LET a == CHOOSE i \in 1..Len(text) : text[i] = label
             e == CHOOSE j \in a..Len(text) :
                      text[j] = "\n" /\ \A m \in a..(j - 1) : text[m] # "\n"
         IN  SubSeq(text, a, e)
    ELSE <<>>

\* C9 as stated: for a record without shipping, tags, coupon_code and is_gift the
\* text has no Shipping, Tags, Coupon or Is Gift line, and metadata order_id is
\* "N/A" when the record has no order_id.
C9_NoLineForMissingFields ==
    ret.op = "load_ndjson" /\ LacksOptional(ret.data) =>
        /\ Len(ret.result) = 1
        /\ ~Has(ret.result[1].page_content, "Shipping: ")
        /\ ~Has(ret.result[1].page_content, "Tags: ")
        /\ ~Has(ret.result[1].page_content, "Coupon: ")
        /\ ~Has(ret.result[1].page_content, "Is Gift: ")
        /\ "order_id" \notin DOMAIN ret.data.items
              => ret.result[1].metadata.items.order_id = NA

\* C9 amended: for a record without shipping, tags, coupon_code and is_gift the
\* text has no Coupon and no Is Gift line, has the line "Shipping: N/A, N/A" and an
\* empty "Tags: " line, and metadata order_id is "N/A" when the record has no order_id.
C9_MissingFieldsText ==
    ret.op = "load_ndjson" /\ LacksOptional(ret.data) =>
        /\ Len(ret.result) = 1
        /\ LineOf(ret.result[1].page_content, "Shipping: ")
              = <<"Shipping: ", "N", "/", "A", ",", " ", "N", "/", "A", "\n">>
        /\ LineOf(ret.result[1].page_content, "Tags: ") = <<"Tags: ", "\n">>
        /\ ~Has(ret.result[1].page_content, "Coupon: ")
        /\ ~Has(ret.result[1].page_content, "Is Gift: ")
        /\ "order_id" \notin DOMAIN ret.data.items
              => ret.result[1].metadata.items.order_id = NA

\* C9 witness: a record with neither the four fields nor an order_id was built
C9_Witness ==
    /\ ret.op = "load_ndjson" /\ LacksOptional(ret.data)
    /\ "order_id" \notin DOMAIN ret.data.items
    /\ Len(ret.result) = 1
    /\ ret.result[1].metadata.items.order_id = NA
    /\ Has(ret.result[1].page_content, "Shipping: ")

\* C10 as stated: the tags given as a list and the same tags given as one
\* comma-delimited string produce the same Tags line.
C10_SameTagsLineAnyDelimiter ==
    ret.op = "load_tags" =>
        /\ Len(ret.as_list) = 1 /\ Len(ret.as_string) = 1
        /\ LineOf(ret.as_list[1].page_content, "Tags: ")
              = LineOf(ret.as_string[1].page_content, "Tags: ")

\* C10 amended: the tags given as a list and the same tags given as one string
\* that separates them by a comma and a blank produce the same Tags line.
C10_SameTagsLineCommaBlank ==
    ret.op = "load_tags" /\ ret.delimiter = <<",", " ">> =>
        /\ Len(ret.as_list) = 1 /\ Len(ret.as_string) = 1
        /\ LineOf(ret.as_list[1].page_content, "Tags: ") # <<>>
        /\ LineOf(ret.as_list[1].page_content, "Tags: ")
              = LineOf(ret.as_string[1].page_content, "Tags: ")

\* C10 witness: two or more tags, given both ways with ", " between them
C10_Witness ==
    /\ ret.op = "load_tags" /\ ret.delimiter = <<",", " ">>
    /\ Len(ret.tags) >= 2
    /\ LineOf(ret.as_list[1].page_content, "Tags: ")
          = <<"Tags: ">> \o Join(<<",", " ">>, ret.tags) \o <<"\n">>
    /\ LineOf(ret.as_string[1].page_content, "Tags: ")
          = LineOf(ret.as_list[1].page_content, "Tags: ")

\* the line is not JSON, is JSON but not an object, or is an object with a field of
\* a type the builder cannot use: shipping that is not an object, a tag that is not
\* a string
Malformed(line) ==
    \/ line.kind = "invalid"
    \/ /\ line.kind = "json"
       /\ \/ line.value.t # "dict"
          \/ /\ line.value.t = "dict"
             /\ \/ /\ "shipping" \in DOMAIN line.value.items
                   /\ line.value.items.shipping.t # "dict"
                \/ /\ "tags" \in DOMAIN line.value.items
                   /\ line.value.items.tags.t = "list"
                   /\ \E i \in 1..Len(line.value.items.tags.items) :
                          line.value.items.tags.items[i].t # "str"

\* the positions of the lines that are neither blank nor malformed
WellFormedAt(lines) ==
    {i \in 1..Len(lines) : lines[i].kind # "blank" /\ ~Malformed(lines[i])}

\* C11: when a file is scanned, the malformed lines (not JSON, not an object, a field
\* of an unusable type such as shipping: null) are skipped without raising, and every
\* other non-blank line yields exactly one document, in file order.
C11_MalformedLinesSkipped ==
    ret.op = "load_file" /\ ret.readable =>
        LET good == WellFormedAt(ret.lines) IN
        /\ Len(ret.result) = Cardinality(good)
        /\ \A i \in good :
              ret.result[Cardinality({j \in good : j <= i})]
                  = BuildDocument(ret.lines[i].value, "probe.ndjson")

\* C11 witness: a line with shipping: null between two lines that build different
\* documents
C11_Witness ==
    /\ ret.op = "load_file" /\ ret.readable
    /\ Len(ret.lines) = 3
    /\ ret.lines[2] = JsonLine(PyDict([order_id |-> PyStr(sORD0001), shipping |-> PyNone]))
    /\ Len(ret.result) = 2
    /\ ret.result[1] # ret.result[2]
    /\ ret.result[1] = BuildDocument(ret.lines[1].value, "probe.ndjson")
    /\ ret.result[2] = BuildDocument(ret.lines[3].value, "probe.ndjson")

-----------------------------------------------------------------------------
(* Properties of the Order model *)

\* the integer a given value stands for: an int, True and False as 1 and 0, a float
\* without fractional part, a string that int() reads; otherwise none
Denotes(v) ==
    CASE v.t = "int" -> Returned(v.n)
      [] v.t = "bool" -> Returned(IF v.b THEN 1 ELSE 0)
      [] v.t = "float" /\ v.c % 100 = 0 -> Returned(v.c \div 100)
      [] v.t = "str" -> IntOfStr(v.s)
      [] OTHER -> Raised

\* C14: a record whose quantity stands for no positive integer is refused with a
\* validation error on quantity: a number or numeric string that is <= 0, the strings
\* "n/a", "none" and "" in any letter case, any other string that is no integer; and
\* no Order, created or returned by anonymize_pii, has a quantity <= 0.
C14_QuantityMustBePositive ==
    /\ ret.op = "Order" =>
          LET q == DictGet(ret.data, "quantity", Absent)
              refused == ret.raised /\ "quantity" \in ret.errors
          IN  /\ Denotes(q).raised \/ Denotes(q).value <= 0 => refused
              /\ q.t = "str" /\ Lower(q.s) \in {<<"n","/","a">>, <<"n","o","n","e">>, <<>>} => refused
    /\ ret.op \in {"Order", "anonymize_pii"} /\ ~ret.raised =>
          ret.result.quantity.t = "int" /\ ret.result.quantity.n > 0

\* C14 witness: the numeric string "0" given as quantity of an otherwise valid record
\* was refused, for quantity alone
C14_Witness ==
    /\ ret.op = "Order"
    /\ ret.data.items.quantity = PyStr(<<"0">>)
    /\ ret.raised
    /\ ret.errors = {"quantity"}

\* C15: anonymize_pii on a created order does not raise and returns an Order whose
\* customer_email is "anonymized@example.com", whose other fields equal the
\* original's and which satisfies the constraints of the model; the original order
\* is as it was before the call.
C15_AnonymizeKeepsTheRest ==
    ret.op = "anonymize_pii" =>
        /\ ~ret.raised
        /\ ret.result.customer_email = PyStr(sAnonymized)
        /\ \A f \in OrderFields \ {"customer_email"} : ret.result[f] = ret.self[f]
        /\ ret.result.quantity.n > 0
        /\ ret.result.unit_price.c > 0
        /\ ret.result.quantity.n * ret.result.unit_price.c <= MaxTotal * 100
        /\ ret.result.priority.n \in 1..5
        /\ ret.self_after = ret.self

\* C15 witness: an order whose shipping was normalized on creation (country code
\* "us", a numeric postal code) was anonymized; the copy has the same shipping and
\* the original still has its email
C15_Witness ==
    /\ ret.op = "anonymize_pii" /\ ~ret.raised
    /\ ret.self.shipping.country_code = PyStr(<<"U", "S">>)
    /\ ret.self.shipping.postal_code = PyStr(<<"1","0","0","0","1">>)
    /\ ret.self.shipping.city = PyStr(sBonn)
    /\ ret.result.shipping = ret.self.shipping
    /\ ret.result.customer_email = PyStr(sAnonymized)
    /\ ret.self_after.customer_email = PyStr(<<"t","e","s","t","@","e","x","a","m","p","l","e",".","c","o","m">>)

\* C16: for is_gift the strings true, yes, 1, y in any letter case are stored as
\* True and false, no, 0, n as False; a bool is kept; an int is stored as its
\* truthiness; every other string is refused with a validation error on is_gift;
\* the is_gift of an Order is a bool.
C16_GiftNormalized ==
    ret.op = "Order" =>
        LET g == DictGet(ret.data, "is_gift", Absent)
            refused == ret.raised /\ "is_gift" \in ret.errors
            stored(b) == ~refused /\ (~ret.raised => ret.result.is_gift = PyBool(b))
        IN  /\ g.t = "str" /\ Lower(g.s) \in TrueWords => stored(TRUE)
            /\ g.t = "str" /\ Lower(g.s) \in FalseWords => stored(FALSE)
            /\ g.t = "str" /\ Lower(g.s) \notin TrueWords \cup FalseWords => refused
            /\ g.t = "bool" => stored(g.b)
            /\ g.t = "int" => stored(g.n # 0)
            /\ ~ret.raised => ret.result.is_gift.t = "bool"

\* C16 witness: "YES" was stored as True
C16_Witness ==
    /\ ret.op = "Order" /\ ~ret.raised
    /\ DictGet(ret.data, "is_gift", Absent) = PyStr(<<"Y","E","S">>)
    /\ ret.result.is_gift = PyBool(TRUE)

\* C17: for priority the strings low, medium, high, urgent in any letter case are
\* stored as 5, 3, 1, 1; any other value that stands for an integer from 1 to 5 is
\* stored as that integer; every other value is refused with a validation error on
\* priority; the priority of an Order is an int from 1 to 5.
C17_PriorityNormalized ==
    ret.op = "Order" =>
        LET p == DictGet(ret.data, "priority", Absent)
            refused == ret.raised /\ "priority" \in ret.errors
            stored(n) == ~refused /\ (~ret.raised => ret.result.priority = PyInt(n))
            word == p.t = "str" /\ Lower(p.s) \in {<<"l","o","w">>, <<"m","e","d","i","u","m">>, <<"h","i","g","h">>, <<"u","r","g","e","n","t">>}
        IN  /\ word /\ Lower(p.s) = <<"l","o","w">> => stored(5)
            /\ word /\ Lower(p.s) = <<"m","e","d","i","u","m">> => stored(3)
            /\ word /\ Lower(p.s) = <<"h","i","g","h">> => stored(1)
            /\ word /\ Lower(p.s) = <<"u","r","g","e","n","t">> => stored(1)
            /\ ~word /\ ~Denotes(p).raised /\ Denotes(p).value \in 1..5
                  => stored(Denotes(p).value)
            /\ ~word /\ (Denotes(p).raised \/ Denotes(p).value \notin 1..5) => refused
            /\ ~ret.raised => ret.result.priority.t = "int" /\ ret.result.priority.n \in 1..5

\* C17 witness: "HIGH" was stored as 1
C17_Witness ==
    /\ ret.op = "Order" /\ ~ret.raised
    /\ ret.data.items.priority = PyStr(<<"H","I","G","H">>)
    /\ ret.result.priority = PyInt(1)

-----------------------------------------------------------------------------
(* Properties of the masker *)

\* what the dict at address a of heap hp shows to its holder: its items, a nested
\* dict by its items
Shown(hp, a) ==
    [key \in DOMAIN hp[a].items |->
        IF hp[a].items[key].t = "ref" THEN hp[hp[a].items[key].addr] ELSE hp[a].items[key]]

\* C29 as stated: a mask_order call that returns gives a new mapping and leaves its
\* input as it was: the input keeps its keys (none of _gdpr_masked and _masked_at
\* is added), its customer_email, and the street and postal_code of its shipping.
C29_MaskOrderLeavesInput ==
    ret.op = "mask_order" /\ ~ret.raised =>
        /\ ret.result # ret.order_data
        /\ Shown(heap, ret.order_data) = Shown(ret.before, ret.order_data)

-----------------------------------------------------------------------------
(* Properties of validate_orders *)

\* the lines of the upload that are no valid order: not JSON, JSON that is no object,
\* or a record the Order model refuses
NotAnOrder(line) ==
    \/ line.kind # "json"
    \/ line.value.t # "dict"
    \/ NewOrder(line.value).raised

BadLines(lines) == {idx \in 1..Len(lines) : NotAnOrder(lines[idx])}

\* the errors are those of the first lines that are no valid order, in line order
FirstErrors(errors, bad) ==
    \A i \in 1..Len(errors) :
        /\ errors[i].line \in bad
        /\ Cardinality({idx \in bad : idx < errors[i].line}) = i - 1

\* the counts and errors of a result for the lines the handler went through
Classified(result, lines) ==
    /\ result.valid + result.invalid = result.total
    /\ result.total = Len(lines)
    /\ result.invalid = Cardinality(BadLines(lines))
    /\ Len(result.errors) = Min(ErrorsReturned, result.invalid)
    /\ FirstErrors(result.errors, BadLines(lines))

\* C30 as stated: for every uploaded .ndjson content validate_orders returns, lines
\* that are valid JSON but no object included: every line is counted as valid or as
\* invalid, valid + invalid = total = the number of lines, and errors holds the
\* first min(10, invalid) errors in line order.
C30_EveryLineClassified ==
    ret.op = "validate_orders" /\ EndsWithNdjson(ret.filename) =>
        /\ ~ret.outcome.raised
        /\ Classified(ret.outcome.value, SplitLines(ret.content))

====
